---- MODULE Spec2Model ----
(***************************************************************************)
(* SQL-Guard query governance pipeline: RBAC checks (security/rbac.py),    *)
(* SQL validation (security/sql_validator.py), query execution             *)
(* (services/sql_execution_service.py) and security-policy management and  *)
(* evaluation (services/security_service.py), and the template approval   *)
(* workflow (services/template_service.py, services/approval_service.py).  *)
(*                                                                         *)
(* SQL text is a sequence of tokens joined by single spaces.  Substring    *)
(* tests of the code (`kw in sql.upper()`) are computed on the characters  *)
(* of that text; sqlparse tokenisation is computed on the tokens.          *)
(***************************************************************************)
EXTENDS Integers, Sequences, FiniteSets, TLC

VARIABLES users, rbacCall, execCall, policyStore, policyCall, evalTask,
          templateStore, approvalStore, workflowCall, maskCall

vars == <<users, rbacCall, execCall, policyStore, policyCall, evalTask,
          templateStore, approvalStore, workflowCall, maskCall>>

None == "None"

(***************************************************************************)
(* Bounds                                                                  *)
(***************************************************************************)
\* longest SQL text, in tokens
MaxLen == 3

(***************************************************************************)
(* SQL text                                                                *)
(***************************************************************************)
Tokens == {"SELECT", "created_at", "UPDATE", "SET", "WHERE", "DROP", ";",
           "UNION", "LIMIT", ":id"}

Statements == UNION {[1..n -> Tokens] : n \in 0..MaxLen}

\* the characters of a token or keyword
Chars(tok) ==
    CASE tok = "SELECT" -> <<"S","E","L","E","C","T">>
      [] tok = "created_at" -> <<"c","r","e","a","t","e","d","_","a","t">>
      [] tok = "UPDATE" -> <<"U","P","D","A","T","E">>
      [] tok = "SET" -> <<"S","E","T">>
      [] tok = "WHERE" -> <<"W","H","E","R","E">>
      [] tok = "DROP" -> <<"D","R","O","P">>
      [] tok = ";" -> <<";">>
      [] tok = "UNION" -> <<"U","N","I","O","N">>
      [] tok = "LIMIT" -> <<"L","I","M","I","T">>
      [] tok = ":id" -> <<":","i","d">>
      [] tok = "CREATE" -> <<"C","R","E","A","T","E">>
      [] tok = "ALTER" -> <<"A","L","T","E","R">>
      [] tok = "TRUNCATE" -> <<"T","R","U","N","C","A","T","E">>
      [] tok = "GRANT" -> <<"G","R","A","N","T">>
      [] tok = "REVOKE" -> <<"R","E","V","O","K","E">>
      [] tok = "INSERT" -> <<"I","N","S","E","R","T">>
      [] tok = "DELETE" -> <<"D","E","L","E","T","E">>
      [] tok = "MERGE" -> <<"M","E","R","G","E">>
      [] tok = "RENAME" -> <<"R","E","N","A","M","E">>
      [] tok = "COMMENT" -> <<"C","O","M","M","E","N","T">>
      [] tok = "RESET" -> <<"R","E","S","E","T">>
      [] tok = "UPSERT" -> <<"U","P","S","E","R","T">>
      [] tok = "LOAD_FILE" -> <<"L","O","A","D","_","F","I","L","E">>
      [] tok = "INTO OUTFILE" -> <<"I","N","T","O"," ","O","U","T","F","I","L","E">>
      [] tok = "INTO DUMPFILE" -> <<"I","N","T","O"," ","D","U","M","P","F","I","L","E">>
      [] tok = "XP_CMDSHELL" -> <<"X","P","_","C","M","D","S","H","E","L","L">>
      [] tok = "SP_EXECUTESQL" -> <<"S","P","_","E","X","E","C","U","T","E","S","Q","L">>
      [] tok = "EXEC" -> <<"E","X","E","C">>
      [] tok = "EVAL" -> <<"E","V","A","L">>
      [] tok = "EXECUTE" -> <<"E","X","E","C","U","T","E">>
      [] tok = "CALL" -> <<"C","A","L","L">>
      [] tok = "ALL" -> <<"A","L","L">>
      [] tok = "DISTINCT" -> <<"D","I","S","T","I","N","C","T">>
      [] tok = "OR" -> <<"O","R">>
      [] tok = "TRUE" -> <<"T","R","U","E">>
      [] tok = "WAITFOR" -> <<"W","A","I","T","F","O","R">>
      [] tok = "DELAY" -> <<"D","E","L","A","Y">>
      [] tok = "FROM" -> <<"F","R","O","M">>
      [] tok = "id" -> <<"i","d">>
      [] tok = "extra" -> <<"e","x","t","r","a">>
      [] tok = "1000" -> <<"1","0","0","0">>
      [] tok = "10000" -> <<"1","0","0","0","0">>
      [] tok = "50000" -> <<"5","0","0","0","0">>
      [] tok = "100000" -> <<"1","0","0","0","0","0">>
      [] tok = "rate_limit" -> <<"r","a","t","e","_","l","i","m","i","t">>
      [] tok = "a@b.co" -> <<"a","@","b",".","c","o">>

\* str.upper() on one character
UpperChar(c) ==
    CASE c = "a" -> "A"
      [] c = "b" -> "B"
      [] c = "c" -> "C"
      [] c = "d" -> "D"
      [] c = "e" -> "E"
      [] c = "i" -> "I"
      [] c = "l" -> "L"
      [] c = "m" -> "M"
      [] c = "o" -> "O"
      [] c = "r" -> "R"
      [] c = "t" -> "T"
      [] c = "x" -> "X"
      [] OTHER -> c

\* str.upper() on a character sequence
Upper(cs) == [i \in 1..Len(cs) |-> UpperChar(cs[i])]

\* the text of a statement: its tokens joined by single spaces
RECURSIVE Text(_)
Text(sql) ==
    IF Len(sql) = 0 THEN <<>>
    ELSE IF Len(sql) = 1 THEN Chars(sql[1])
    ELSE Chars(sql[1]) \o <<" ">> \o Text(Tail(sql))

\* Python `needle in hay` on character sequences
Contains(hay, needle) ==
    \E i \in 1..(Len(hay) - Len(needle) + 1) :
        SubSeq(hay, i, i + Len(needle) - 1) = needle

\* `keyword in sql.upper()`
InSqlUpper(keyword, sql) == Contains(Upper(Text(sql)), Chars(keyword))

(***************************************************************************)
(* Users and roles (models/user.py)                                        *)
(***************************************************************************)
UserRole == {"VIEWER", "OPERATOR", "APPROVER", "ADMIN"}

UserIds == {"viewer-123", "admin-123"}

\* a User object as a caller hands it to the RBAC service
UserObjects == [id : UserIds, role : UserRole, is_active : BOOLEAN]

ConnectionType == {"PRODUCTION", "STAGING", "DEVELOPMENT", "AUDIT"}

TemplateStatus == {"DRAFT", "PENDING_APPROVAL", "APPROVED", "REJECTED"}

(***************************************************************************)
(* RBACService (security/rbac.py)                                          *)
(***************************************************************************)
Permission == {
    "execute_select_queries", "execute_approved_templates",
    "execute_ddl_statements", "execute_dml_statements",
    "create_templates", "update_templates", "delete_templates",
    "view_all_templates", "view_approved_templates",
    "approve_templates", "view_approval_queue", "submit_for_approval",
    "manage_users", "create_users", "update_users", "delete_users",
    "view_all_users",
    "manage_database_connections", "create_database_connections",
    "update_database_connections", "delete_database_connections",
    "test_database_connections",
    "configure_security_policies", "view_security_policies",
    "manage_security_policies",
    "view_all_audit_logs", "view_own_audit_logs", "export_audit_logs",
    "view_system_statistics",
    "system_administration", "configure_system", "view_system_health"}

extended_permissions(role) ==
    CASE role = "VIEWER" ->
           {"execute_select_queries", "view_approved_templates",
            "view_own_audit_logs"}
      [] role = "OPERATOR" ->
           {"execute_select_queries", "execute_approved_templates",
            "view_approved_templates", "view_own_audit_logs",
            "submit_for_approval"}
      [] role = "APPROVER" ->
           {"execute_select_queries", "execute_approved_templates",
            "view_all_templates", "approve_templates",
            "view_approval_queue", "view_all_audit_logs",
            "view_system_statistics"}
      [] role = "ADMIN" ->
           {"execute_select_queries", "execute_approved_templates",
            "execute_ddl_statements", "execute_dml_statements",
            "create_templates", "update_templates", "delete_templates",
            "view_all_templates", "approve_templates",
            "view_approval_queue", "submit_for_approval",
            "manage_users", "create_users", "update_users", "delete_users",
            "view_all_users",
            "manage_database_connections", "create_database_connections",
            "update_database_connections", "delete_database_connections",
            "test_database_connections",
            "configure_security_policies", "view_security_policies",
            "manage_security_policies",
            "view_all_audit_logs", "export_audit_logs",
            "view_system_statistics",
            "system_administration", "configure_system",
            "view_system_health"}
      [] OTHER -> {}

database_access_restrictions(role) ==
    CASE role = "VIEWER" -> {"PRODUCTION", "STAGING"}
      [] role = "OPERATOR" -> {"PRODUCTION", "STAGING"}
      [] role = "APPROVER" -> {"PRODUCTION", "STAGING", "DEVELOPMENT"}
      [] role = "ADMIN" -> {"PRODUCTION", "STAGING", "DEVELOPMENT", "AUDIT"}
      [] OTHER -> {}

schema_access_restrictions(role) ==
    CASE role = "VIEWER" -> {"public"}
      [] role = "OPERATOR" -> {"public"}
      [] role = "APPROVER" -> {"public", "staging"}
      [] role = "ADMIN" -> {"public", "staging", "admin", "audit"}
      [] OTHER -> {}

has_permission(user_role, permission) ==
    permission \in extended_permissions(user_role)

get_user_permissions(user_role) == extended_permissions(user_role)

\* get_role_hierarchy with APPROVER inheriting from VIEWER only
get_role_hierarchy_direct_only(role) ==
    CASE role = "VIEWER" -> {}
      [] role = "OPERATOR" -> {"VIEWER"}
      [] role = "APPROVER" -> {"VIEWER"}
      [] role = "ADMIN" -> {"APPROVER", "OPERATOR", "VIEWER"}
      [] OTHER -> {}

get_role_hierarchy(role) ==
    CASE role = "VIEWER" -> {}
      [] role = "OPERATOR" -> {"VIEWER"}
      [] role = "APPROVER" -> {"OPERATOR", "VIEWER"}
      [] role = "ADMIN" -> {"APPROVER", "OPERATOR", "VIEWER"}
      [] OTHER -> {}

get_effective_permissions(user_role) ==
    get_user_permissions(user_role) \cup
    UNION {get_user_permissions(inherited_role) :
               inherited_role \in get_role_hierarchy(user_role)}

rbac_ddl_keywords == {"CREATE", "DROP", "ALTER", "TRUNCATE", "GRANT", "REVOKE"}

rbac_dml_keywords == {"INSERT", "UPDATE", "DELETE", "MERGE"}

can_execute_query(user, sql_query) ==
    IF ~user.is_active THEN FALSE
    ELSE IF ~has_permission(user.role, "execute_select_queries") THEN FALSE
    ELSE IF \E keyword \in rbac_ddl_keywords : InSqlUpper(keyword, sql_query)
         THEN has_permission(user.role, "execute_ddl_statements")
    ELSE IF \E keyword \in rbac_dml_keywords : InSqlUpper(keyword, sql_query)
         THEN has_permission(user.role, "execute_dml_statements")
    ELSE TRUE

can_create_template(user) ==
    IF ~user.is_active THEN FALSE
    ELSE has_permission(user.role, "create_templates")

can_update_template(user, template_creator_id) ==
    IF ~user.is_active THEN FALSE
    ELSE IF user.id = template_creator_id THEN TRUE
    ELSE has_permission(user.role, "update_templates")

can_delete_template(user, template_creator_id) ==
    IF ~user.is_active THEN FALSE
    ELSE IF user.id = template_creator_id THEN TRUE
    ELSE has_permission(user.role, "delete_templates")

can_execute_template(user, template_status) ==
    IF ~user.is_active THEN FALSE
    ELSE IF template_status # "APPROVED" THEN FALSE
    ELSE has_permission(user.role, "execute_approved_templates")

can_approve_template(user) ==
    IF ~user.is_active THEN FALSE
    ELSE has_permission(user.role, "approve_templates")

can_view_approvals(user) ==
    IF ~user.is_active THEN FALSE
    ELSE has_permission(user.role, "view_approval_queue")

can_manage_users(user) ==
    IF ~user.is_active THEN FALSE
    ELSE has_permission(user.role, "manage_users")

can_create_user(user) ==
    IF ~user.is_active THEN FALSE
    ELSE has_permission(user.role, "create_users")

can_update_user(user) ==
    IF ~user.is_active THEN FALSE
    ELSE has_permission(user.role, "update_users")

can_delete_user(user) ==
    IF ~user.is_active THEN FALSE
    ELSE has_permission(user.role, "delete_users")

can_access_database(user, database_type) ==
    IF ~user.is_active THEN FALSE
    ELSE database_type \in database_access_restrictions(user.role)

\* str.lower() on the schema names of SchemaNames
LowerName(name) == IF name = "PUBLIC" THEN "public" ELSE name

can_access_schema(user, schema_name) ==
    IF ~user.is_active THEN FALSE
    ELSE LowerName(schema_name) \in schema_access_restrictions(user.role)

can_view_audit_logs(user, target_user_id) ==
    IF ~user.is_active THEN FALSE
    ELSE IF target_user_id = user.id
         THEN has_permission(user.role, "view_own_audit_logs")
    ELSE has_permission(user.role, "view_all_audit_logs")

can_view_all_audit_logs(user) ==
    IF ~user.is_active THEN FALSE
    ELSE has_permission(user.role, "view_all_audit_logs")

can_export_audit_logs(user) ==
    IF ~user.is_active THEN FALSE
    ELSE has_permission(user.role, "export_audit_logs")

\* can_configure_policies with the permission test left out
can_configure_policies_any_role(user) ==
    IF ~user.is_active THEN FALSE
    ELSE TRUE

can_configure_policies(user) ==
    IF ~user.is_active THEN FALSE
    ELSE has_permission(user.role, "configure_security_policies")

can_manage_database_connections(user) ==
    IF ~user.is_active THEN FALSE
    ELSE has_permission(user.role, "manage_database_connections")

can_view_system_statistics(user) ==
    IF ~user.is_active THEN FALSE
    ELSE has_permission(user.role, "view_system_statistics")

can_perform_system_administration(user) ==
    IF ~user.is_active THEN FALSE
    ELSE has_permission(user.role, "system_administration")

\* check_resource_access with the ownership shortcut taken before the
\* is_active test
check_resource_access_owner_first(user, resource_type, resource_id) ==
    IF resource_type = "user" /\ resource_id = user.id THEN TRUE
    ELSE IF ~user.is_active THEN FALSE
    ELSE IF resource_type = "template"
         THEN has_permission(user.role, "view_all_templates")
    ELSE IF resource_type = "user"
         THEN has_permission(user.role, "view_all_users")
    ELSE IF resource_type = "database"
         THEN has_permission(user.role, "manage_database_connections")
    ELSE IF resource_type = "audit_log"
         THEN can_view_audit_logs(user, resource_id)
    ELSE FALSE

check_resource_access(user, resource_type, resource_id) ==
    IF ~user.is_active THEN FALSE
    ELSE IF resource_type = "template"
         THEN has_permission(user.role, "view_all_templates")
    ELSE IF resource_type = "user"
         THEN IF resource_id = user.id THEN TRUE
              ELSE has_permission(user.role, "view_all_users")
    ELSE IF resource_type = "database"
         THEN has_permission(user.role, "manage_database_connections")
    ELSE IF resource_type = "audit_log"
         THEN can_view_audit_logs(user, resource_id)
    ELSE FALSE

(***************************************************************************)
(* SQLValidator (security/sql_validator.py)                                *)
(***************************************************************************)
\* token.value.upper() of a token
UpperTok(tok) == Upper(Chars(tok))

\* [A-Za-z0-9_], the characters the regex class \w matches
WordChar(c) == c \notin {";", ":", " "}

\* a token that starts with a word character; such a token of Tokens consists
\* of word characters only
IsWord(tok) == WordChar(Chars(tok)[1])

\* sqlparse.parse(sql)[0]: the text up to and including the first ';'
\* (sqlparse ends a statement after a ';' at nesting level 0)
RECURSIVE FirstStatement(_)
FirstStatement(sql) ==
    IF Len(sql) = 0 THEN <<>>
    ELSE IF Head(sql) = ";" THEN <<";">>
    ELSE <<Head(sql)>> \o FirstStatement(Tail(sql))

\* the patterns of injection_patterns that are a sequence of whole words
\* separated by whitespace (\bW1\s+W2\b); "*" stands for the whitespace that
\* must follow (\bEXEC\s+).  The other patterns need one of the characters
\* ( - / = or a digit run next to a word, which no token of Tokens has.
SQLInjectionType == <<"UNION_BASED", "BOOLEAN_BASED", "TIME_BASED",
                      "ERROR_BASED", "COMMENT_BASED", "FUNCTION_CALL">>

injection_patterns(injection_type) ==
    CASE injection_type = "UNION_BASED" ->
           {<<"UNION", "SELECT">>, <<"UNION", "ALL", "SELECT">>,
            <<"UNION", "DISTINCT", "SELECT">>}
      [] injection_type = "BOOLEAN_BASED" -> {<<"OR", "TRUE">>}
      [] injection_type = "TIME_BASED" -> {<<"WAITFOR", "DELAY">>}
      [] injection_type = "FUNCTION_CALL" ->
           {<<"EXEC", "*">>, <<"EXECUTE", "*">>}
      [] OTHER -> {}

\* PatternMatches with re.match in place of re.search: only a match at the
\* start of the text counts
PatternMatchesAtStart(pattern, sql) ==
    /\ Len(sql) >= Len(pattern)
    /\ \A j \in 1..Len(pattern) :
           \/ pattern[j] = "*"
           \/ UpperTok(sql[j]) = Chars(pattern[j])

\* re.search(pattern, sql_upper) for a word-sequence pattern
PatternMatches(pattern, sql) ==
    \E i \in 1..(Len(sql) - Len(pattern) + 1) :
        \A j \in 1..Len(pattern) :
            \/ pattern[j] = "*"
            \/ UpperTok(sql[i + j - 1]) = Chars(pattern[j])

_detect_sql_injection(sql) ==
    SelectSeq(SQLInjectionType,
              LAMBDA injection_type :
                  \E pattern \in injection_patterns(injection_type) :
                      PatternMatches(pattern, sql))

ddl_keywords == {"CREATE", "DROP", "ALTER", "TRUNCATE", "RENAME", "COMMENT",
                 "GRANT", "REVOKE", "SET", "RESET"}

dml_keywords == {"INSERT", "UPDATE", "DELETE", "MERGE", "UPSERT"}

dangerous_functions == {"LOAD_FILE", "INTO OUTFILE", "INTO DUMPFILE",
                        "XP_CMDSHELL", "SP_EXECUTESQL", "EXEC", "EVAL",
                        "EXECUTE", "CALL"}

_has_ddl_statements(statement) ==
    \E i \in 1..Len(statement) :
        \E keyword \in ddl_keywords : UpperTok(statement[i]) = Chars(keyword)

_has_dml_statements(statement) ==
    \E i \in 1..Len(statement) :
        \E keyword \in dml_keywords : UpperTok(statement[i]) = Chars(keyword)

_has_where_clause(statement) ==
    \E i \in 1..Len(statement) : UpperTok(statement[i]) = Chars("WHERE")

\* the named placeholders of the text, re.findall(r':(\w+)', sql)
IsPlaceholder(tok) ==
    /\ Len(Chars(tok)) >= 2
    /\ Chars(tok)[1] = ":"
    /\ WordChar(Chars(tok)[2])

\* no token of Tokens is a positional placeholder (%s, $1, ?)
_count_parameters(sql) ==
    Cardinality({i \in 1..Len(sql) : IsPlaceholder(sql[i])})

_has_dangerous_functions(sql) ==
    \E func \in dangerous_functions : InSqlUpper(func, sql)

\* re.search(r'\bUPDATE\s+\w+', sql_upper): the positions of an UPDATE token
\* followed by a word.  r'\bDELETE\s+FROM\s+\w+' likewise.
UpdateMatches(sql) ==
    {i \in 1..(Len(sql) - 1) :
        UpperTok(sql[i]) = Chars("UPDATE") /\ IsWord(sql[i + 1])}

DeleteMatches(sql) ==
    {i \in 1..(Len(sql) - 2) :
        /\ UpperTok(sql[i]) = Chars("DELETE")
        /\ UpperTok(sql[i + 1]) = Chars("FROM")
        /\ IsWord(sql[i + 2])}

Min(S) == CHOOSE x \in S : \A y \in S : x <= y

_has_update_or_delete_without_where(sql) ==
    IF UpdateMatches(sql) # {} \/ DeleteMatches(sql) # {}
    THEN LET table_end == IF UpdateMatches(sql) # {}
                          THEN Min(UpdateMatches(sql)) + 1
                          ELSE Min(DeleteMatches(sql)) + 2
             remaining_sql == SubSeq(sql, table_end + 1, Len(sql))
         IN  ~_has_where_clause(remaining_sql)
    ELSE FALSE

\* validate_sql; estimated_cost and the security_checks summary, which take
\* no part in any decision, are left out of the result
validate_sql(sql, user_role) ==
    IF Len(sql) = 0
    THEN [is_valid |-> FALSE, errors |-> <<"Empty SQL query">>,
          has_ddl |-> FALSE, has_dml |-> FALSE, has_where_clause |-> FALSE,
          parameter_count |-> 0, injection_attempts |-> <<>>]
    ELSE
    LET statement == FirstStatement(sql)
        injection_attempts == _detect_sql_injection(sql)
        has_ddl == _has_ddl_statements(statement)
        has_dml == _has_dml_statements(statement)
        has_where_clause == _has_where_clause(statement)
        errors ==
            (IF Len(injection_attempts) > 0
             THEN <<"SQL injection attempt detected">> \o
                  [i \in 1..Len(injection_attempts) |->
                      <<"Injection type", injection_attempts[i]>>]
             ELSE <<>>)
            \o (IF user_role = "VIEWER" /\ has_ddl
                THEN <<"DDL operations not allowed for VIEWER role">>
                ELSE <<>>)
            \o (IF user_role = "VIEWER" /\ has_dml
                THEN <<"DML operations not allowed for VIEWER role">>
                ELSE <<>>)
            \o (IF _has_dangerous_functions(sql)
                THEN <<"Dangerous function calls detected">>
                ELSE <<>>)
            \o (IF /\ has_dml
                   /\ ~has_where_clause
                   /\ _has_update_or_delete_without_where(sql)
                THEN <<"UPDATE/DELETE without WHERE clause not allowed">>
                ELSE <<>>)
    IN  [is_valid |-> Len(errors) = 0, errors |-> errors,
         has_ddl |-> has_ddl, has_dml |-> has_dml,
         has_where_clause |-> has_where_clause,
         parameter_count |-> _count_parameters(sql),
         injection_attempts |-> injection_attempts]

\* the longest parameter value validate_parameters accepts, in characters
MaxParamValueLen == 1000

\* parameters is a function from parameter names to values (texts)
validate_parameters(sql, parameters) ==
    LET param_names == {Tail(Chars(sql[i])) :
                           i \in {j \in 1..Len(sql) : IsPlaceholder(sql[j])}}
        names == DOMAIN parameters
        missing == {n \in param_names :
                       \A k \in names : Chars(k) # n}
        unused == {k \in names : Chars(k) \notin param_names}
        injected == {k \in names :
                        /\ Chars(k) \in param_names
                        /\ Len(_detect_sql_injection(parameters[k])) > 0}
        too_long == {k \in names :
                        /\ Chars(k) \in param_names
                        /\ Len(Text(parameters[k])) > MaxParamValueLen}
        errors == {<<"Missing required parameter", n>> : n \in missing}
                  \cup {<<"Unused parameter", k>> : k \in unused}
                  \cup {<<"SQL injection detected in parameter", k>> :
                            k \in injected}
                  \cup {<<"Parameter value too long", k>> : k \in too_long}
    IN  [is_valid |-> errors = {}, errors |-> errors]

(***************************************************************************)
(* SQLExecutionService (services/sql_execution_service.py)                 *)
(***************************************************************************)
DatabaseIds == {"test-db", "other-db"}

\* the parameter of execute_query is not checked to be a UserRole
RequestRoles == UserRole \cup {"GUEST"}

\* parameter dictionaries: none, the placeholder bound to a harmless value,
\* bound to an injection, and a key the text may not have
ParameterSets ==
    {<<>>,
     [n \in {"id"} |-> <<"created_at">>],
     [n \in {"id"} |-> <<"UNION", "SELECT">>],
     [n \in {"id", "extra"} |-> <<"created_at">>]}

\* the value of _get_database_connection for an unknown database id
NoConnection == [id |-> None, connection_type |-> None, query_timeout |-> 0]

_get_database_connection(database_id) ==
    IF database_id = "test-db"
    THEN [id |-> database_id, connection_type |-> "PRODUCTION",
          query_timeout |-> 30]
    ELSE NoConnection

_get_max_rows_for_connection(db_connection) ==
    CASE db_connection.connection_type = "PRODUCTION" -> "10000"
      [] db_connection.connection_type = "STAGING" -> "50000"
      [] db_connection.connection_type = "DEVELOPMENT" -> "100000"
      [] db_connection.connection_type = "AUDIT" -> "1000"
      [] OTHER -> None

\* sql.rstrip(';'): a final ';' token goes; the space before it stays, so a
\* ';' token before that one is kept
RStripSemicolon(sql) ==
    IF Len(sql) > 0 /\ sql[Len(sql)] = ";"
    THEN SubSeq(sql, 1, Len(sql) - 1)
    ELSE sql

_apply_security_policies(sql, user_role, db_connection) ==
    LET modified_sql ==
            IF user_role = "VIEWER" /\ ~InSqlUpper("LIMIT", sql)
            THEN RStripSemicolon(sql) \o <<"LIMIT", "1000">>
            ELSE sql
        max_rows == _get_max_rows_for_connection(db_connection)
    IN  IF max_rows # None /\ ~InSqlUpper("LIMIT", modified_sql)
        THEN RStripSemicolon(modified_sql) \o <<"LIMIT", max_rows>>
        ELSE modified_sql

\* an AuditLog object and a logger line; sql_query is the statement text the
\* record carries, None when it carries none
\* PIIMasker.pii_patterns: each pattern with the tokens of the model that its
\* regular expression matches; the phone, card, address, date, passport and
\* licence patterns match no token of the model
pii_patterns ==
    <<[pii_type |-> "EMAIL", matches |-> {"a@b.co"}, mask |-> "***@***.com"],
      [pii_type |-> "SSN", matches |-> {"123-45-6789"},
       mask |-> "***-**-****"]>>

\* regex.sub(pattern.mask, text) over the tokens of the text
SubPattern(pattern, text) ==
    [i \in 1..Len(text) |->
        IF text[i] \in pattern.matches THEN pattern.mask ELSE text[i]]

RECURSIVE MaskWith(_, _)
MaskWith(patterns, text) ==
    IF patterns = <<>> THEN text
    ELSE MaskWith(Tail(patterns), SubPattern(Head(patterns), text))

mask_pii_in_text(text) == MaskWith(pii_patterns, text)

mask_sql_query(sql) == mask_pii_in_text(sql)

AuditRecord(action, severity, user_id, sql_query) ==
    [action |-> action, severity |-> severity, user_id |-> user_id,
     sql_query |-> sql_query]

LogLine(level, event, sql_query) ==
    [level |-> level, event |-> event, sql_query |-> sql_query]

_log_security_event(user_id, action, sql) ==
    [audit |-> <<AuditRecord(action, "CRITICAL", user_id, sql)>>,
     log |-> <<LogLine("warning", "Security event logged", sql)>>]

_log_sql_execution(user_id, sql) ==
    [audit |-> <<AuditRecord("SQL_EXECUTION", "INFO", user_id, sql)>>,
     log |-> <<LogLine("info", "SQL execution logged", None)>>]

_log_sql_execution_failed(user_id, sql) ==
    [audit |-> <<AuditRecord("SQL_EXECUTION_FAILED", "ERROR", user_id, sql)>>,
     log |-> <<LogLine("info", "SQL execution failure logged", None)>>]

\* the except branch of execute_query: the failure is logged and re-raised
ExecFailed(exception, message, validation, security, user_id, sql) ==
    [outcome |-> exception, error |-> message, validation |-> validation,
     policies_applied |-> FALSE, executed |-> FALSE, executed_sql |-> None,
     row_count |-> 0,
     audit |-> security.audit \o _log_sql_execution_failed(user_id, sql).audit,
     log |-> security.log \o _log_sql_execution_failed(user_id, sql).log
             \o <<LogLine("error", "SQL execution failed", None)>>]

NoRecords == [audit |-> <<>>, log |-> <<>>]

\* the rows MockConnection.fetch returns
MockRowCount == 2

\* execute_query; the timeout argument, which only sets statement_timeout on
\* the connection, is left out
execute_query(sql, database_id, user_id, user_role, parameters) ==
    LET db_connection == _get_database_connection(database_id)
        validation_result == validate_sql(sql, user_role)
        param_result == validate_parameters(sql, parameters)
        modified_sql ==
            _apply_security_policies(sql, user_role, db_connection)
    IN  IF db_connection = NoConnection
        THEN ExecFailed("ValueError", "Database connection not found", None,
                        NoRecords, user_id, sql)
        ELSE IF ~can_access_database(
                    [id |-> user_id, role |-> user_role, is_active |-> TRUE],
                    db_connection.connection_type)
        THEN ExecFailed("PermissionError", "Access denied to this database",
                        None, NoRecords, user_id, sql)
        ELSE IF ~validation_result.is_valid
        THEN ExecFailed("ValueError", "SQL validation failed",
                        validation_result,
                        _log_security_event(user_id, "SQL_VALIDATION_FAILED",
                                            sql),
                        user_id, sql)
        ELSE IF Len(validation_result.injection_attempts) > 0
        THEN ExecFailed("ValueError", "SQL injection attempt detected",
                        validation_result,
                        _log_security_event(user_id, "SQL_INJECTION_ATTEMPT",
                                            sql),
                        user_id, sql)
        ELSE IF DOMAIN parameters # {} /\ ~param_result.is_valid
        THEN ExecFailed("ValueError", "Parameter validation failed",
                        validation_result, NoRecords, user_id, sql)
        ELSE [outcome |-> "ok", error |-> None,
              validation |-> validation_result,
              policies_applied |-> TRUE, executed |-> TRUE,
              executed_sql |-> modified_sql, row_count |-> MockRowCount,
              audit |-> _log_sql_execution(user_id, sql).audit,
              log |-> _log_sql_execution(user_id, sql).log]

(***************************************************************************)
(* SecurityService (services/security_service.py)                          *)
(***************************************************************************)
\* the longest list of policies a call handles, and the most policies created
MaxPolicies == 2

PolicyType ==
    {"STATEMENT_TIMEOUT", "MAX_ROWS", "AUTO_LIMIT", "BLOCK_DDL", "BLOCK_DML",
     "BLOCK_DCL", "REQUIRE_WHERE_CLAUSE", "BLOCK_SENSITIVE_TABLES",
     "BLOCK_SENSITIVE_COLUMNS", "PII_MASKING", "QUERY_COMPLEXITY_LIMIT",
     "CONNECTION_LIMIT", "IP_WHITELIST", "IP_BLACKLIST", "TIME_RESTRICTION",
     "SCHEMA_ACCESS", "TABLE_ACCESS"}

PolicyTarget == {"ALL_USERS", "ROLE", "USER", "DATABASE", "SCHEMA", "TABLE"}

PolicyPriority == {"LOW", "MEDIUM", "HIGH", "CRITICAL"}

\* dict.get(key, default)
Get(d, key, default) == IF key \in DOMAIN d THEN d[key] ELSE default

\* the value of _get_policy for an unknown id
NoPolicy == [id |-> None]

\* _get_policy: the simulated read by id; it does not consult the table
_get_policy(policy_id) ==
    IF policy_id = "policy-123"
    THEN [id |-> policy_id, name |-> "viewer_timeout",
          policy_type |-> "STATEMENT_TIMEOUT",
          value |-> [timeout_seconds |-> 30],
          applies_to |-> "ROLE", target |-> "VIEWER", priority |-> "HIGH",
          is_active |-> TRUE, is_enforced |-> TRUE,
          created_by |-> "admin-123"]
    ELSE NoPolicy

\* _get_applicable_policies: the simulated read of the policies applicable to
\* a role and a database; it uses neither argument nor the table
_get_applicable_policies(user_role, database_id) ==
    <<[id |-> "policy-123", name |-> "viewer_timeout",
       policy_type |-> "STATEMENT_TIMEOUT",
       value |-> [timeout_seconds |-> 30],
       applies_to |-> "ROLE", target |-> "VIEWER",
       is_active |-> TRUE, is_enforced |-> TRUE]>>

\* _save_policy hands the policy to the policy table: a row with the same id
\* is replaced, a new one is added at the end
_save_policy(store, policy) ==
    IF \E i \in 1..Len(store) : store[i].id = policy.id
    THEN [i \in 1..Len(store) |->
             IF store[i].id = policy.id THEN policy ELSE store[i]]
    ELSE Append(store, policy)

\* _delete_policy removes the row with the id from the policy table
_delete_policy(store, policy_id) ==
    SelectSeq(store, LAMBDA p : p.id # policy_id)

\* the rows of the table that create_policy added
CreatedPolicies(store) ==
    SelectSeq(store, LAMBDA p : p.id # "policy-123")

\* str(uuid.uuid4()): an id no row has yet
uuid4(store) == "uuid-" \o ToString(Len(CreatedPolicies(store)) + 1)

\* _validate_policy_data: the message of the ValueError raised, or None
_validate_policy_data(policy_data) ==
    IF "name" \notin DOMAIN policy_data
    THEN "Missing required field: name"
    ELSE IF "policy_type" \notin DOMAIN policy_data
    THEN "Missing required field: policy_type"
    ELSE IF "value" \notin DOMAIN policy_data
    THEN "Missing required field: value"
    ELSE IF policy_data.policy_type \notin PolicyType
    THEN "Invalid policy type"
    ELSE IF "applies_to" \in DOMAIN policy_data
            /\ policy_data.applies_to \notin PolicyTarget
    THEN "Invalid applies_to"
    ELSE IF "priority" \in DOMAIN policy_data
            /\ policy_data.priority \notin PolicyPriority
    THEN "Invalid priority"
    ELSE None

\* SecurityPolicyCreate.validate_value: TRUE when the validator accepts the
\* value v for the policy type (the values of the model hold integers under
\* the integer keys and lists under the list keys)
validate_value(policy_type, v) ==
    IF policy_type = "STATEMENT_TIMEOUT"
    THEN "timeout_seconds" \in DOMAIN v /\ v.timeout_seconds > 0
    ELSE IF policy_type = "MAX_ROWS"
    THEN "max_rows" \in DOMAIN v /\ v.max_rows > 0
    ELSE IF policy_type = "AUTO_LIMIT"
    THEN "limit" \in DOMAIN v /\ v.limit > 0
    ELSE IF policy_type = "BLOCK_SENSITIVE_TABLES"
    THEN "tables" \in DOMAIN v
    ELSE IF policy_type = "BLOCK_SENSITIVE_COLUMNS"
    THEN "columns" \in DOMAIN v
    ELSE IF policy_type = "PII_MASKING"
    THEN "patterns" \in DOMAIN v
    ELSE TRUE

\* SecurityPolicyCreate.validate_target: TRUE when the validator accepts the
\* target v for the scope
validate_target(applies_to, v) ==
    ~(applies_to \in {"ROLE", "USER", "DATABASE"} /\ v \in {None, ""})

\* the outcome of a policy operation that raised
PolicyFailed(exception, message, store) ==
    [outcome |-> exception, error |-> message, policy |-> NoPolicy,
     store |-> store]

create_policy(policy_data, user_id, user_role, store) ==
    LET policy ==
            [id |-> uuid4(store),
             name |-> policy_data.name,
             policy_type |-> policy_data.policy_type,
             value |-> policy_data.value,
             applies_to |-> Get(policy_data, "applies_to", "ALL_USERS"),
             target |-> Get(policy_data, "target", None),
             priority |-> Get(policy_data, "priority", "MEDIUM"),
             is_active |-> Get(policy_data, "is_active", TRUE),
             is_enforced |-> Get(policy_data, "is_enforced", TRUE),
             created_by |-> user_id]
    IN  IF ~can_configure_policies(
                [id |-> user_id, role |-> user_role, is_active |-> TRUE])
        THEN PolicyFailed("PermissionError",
                 "Insufficient permissions to create security policies",
                 store)
        ELSE IF _validate_policy_data(policy_data) # None
        THEN PolicyFailed("ValueError", _validate_policy_data(policy_data),
                          store)
        ELSE [outcome |-> "ok", error |-> None, policy |-> policy,
              store |-> _save_policy(store, policy)]

update_policy(policy_id, update_data, user_id, user_role, store) ==
    LET policy == _get_policy(policy_id)
        updated_policy ==
            [id |-> policy_id,
             name |-> Get(update_data, "name", policy.name),
             policy_type |->
                 Get(update_data, "policy_type", policy.policy_type),
             value |-> Get(update_data, "value", policy.value),
             applies_to |-> Get(update_data, "applies_to", policy.applies_to),
             target |-> Get(update_data, "target", policy.target),
             priority |-> Get(update_data, "priority", policy.priority),
             is_active |-> Get(update_data, "is_active", policy.is_active),
             is_enforced |->
                 Get(update_data, "is_enforced", policy.is_enforced),
             created_by |-> policy.created_by]
    IN  IF ~can_configure_policies(
                [id |-> user_id, role |-> user_role, is_active |-> TRUE])
        THEN PolicyFailed("PermissionError",
                 "Insufficient permissions to update security policies",
                 store)
        ELSE IF policy = NoPolicy
        THEN PolicyFailed("ValueError", "Policy not found", store)
        ELSE IF ("policy_type" \in DOMAIN update_data
                    \/ "value" \in DOMAIN update_data)
                /\ _validate_policy_data(update_data) # None
        THEN PolicyFailed("ValueError", _validate_policy_data(update_data),
                          store)
        ELSE IF updated_policy.policy_type \notin PolicyType
        THEN PolicyFailed("ValueError", "not a valid PolicyType", store)
        ELSE IF updated_policy.applies_to \notin PolicyTarget
        THEN PolicyFailed("ValueError", "not a valid PolicyTarget", store)
        ELSE IF updated_policy.priority \notin PolicyPriority
        THEN PolicyFailed("ValueError", "not a valid PolicyPriority", store)
        ELSE [outcome |-> "ok", error |-> None, policy |-> updated_policy,
              store |-> _save_policy(store, updated_policy)]

delete_policy(policy_id, user_id, user_role, store) ==
    IF ~can_configure_policies(
            [id |-> user_id, role |-> user_role, is_active |-> TRUE])
    THEN PolicyFailed("PermissionError",
             "Insufficient permissions to delete security policies", store)
    ELSE IF _get_policy(policy_id) = NoPolicy
    THEN PolicyFailed("ValueError", "Policy not found", store)
    ELSE [outcome |-> "ok", error |-> None, policy |-> NoPolicy,
          store |-> _delete_policy(store, policy_id)]

\* no violation, no warning (None)
NoMessage == <<>>

\* no modification (None), and the empty modifications dict
NoModification == <<>>

\* the first statement of the list that occurs in the upper-cased text, as a
\* set of at most one list index
FirstBlocked(statements, sql) ==
    LET hits == {i \in 1..Len(statements) :
                    Contains(Upper(Text(sql)), Upper(Chars(statements[i])))}
    IN  IF hits = {} THEN {} ELSE {Min(hits)}

\* _evaluate_specific_policy; risk_impact counts tenths (0.1 is 1)
_evaluate_specific_policy(policy, evaluation_request) ==
    LET policy_value == policy.value
        sql == evaluation_request.sql_query
        result == [violation |-> NoMessage, warning |-> NoMessage,
                   modification |-> NoModification, risk_impact |-> 0]
    IN  CASE policy.policy_type = "STATEMENT_TIMEOUT" ->
               [result EXCEPT
                   !.warning = <<"Query timeout should not exceed",
                                 Get(policy_value, "timeout_seconds", 30)>>,
                   !.risk_impact = 1]
          [] policy.policy_type = "MAX_ROWS" ->
               [result EXCEPT
                   !.warning = <<"Query should not return more than",
                                 Get(policy_value, "max_rows", 1000)>>,
                   !.risk_impact = 2]
          [] policy.policy_type = "BLOCK_DDL" ->
               LET blocked_statements ==
                       Get(policy_value, "blocked_statements", <<>>)
                   first == FirstBlocked(blocked_statements, sql)
               IN  IF first = {} THEN result
                   ELSE [result EXCEPT
                            !.violation =
                                <<"DDL statement",
                                  blocked_statements[Min(first)],
                                  "is blocked by policy">>,
                            !.risk_impact = 8]
          [] policy.policy_type = "BLOCK_DML" ->
               LET blocked_statements ==
                       Get(policy_value, "blocked_statements", <<>>)
                   first == FirstBlocked(blocked_statements, sql)
               IN  IF first = {} THEN result
                   ELSE [result EXCEPT
                            !.violation =
                                <<"DML statement",
                                  blocked_statements[Min(first)],
                                  "is blocked by policy">>,
                            !.risk_impact = 6]
          [] policy.policy_type = "REQUIRE_WHERE_CLAUSE" ->
               LET required_for ==
                       Get(policy_value, "required_for",
                           <<"UPDATE", "DELETE">>)
                   first == FirstBlocked(required_for, sql)
               IN  IF first = {} \/ InSqlUpper("WHERE", sql) THEN result
                   ELSE [result EXCEPT
                            !.violation =
                                <<required_for[Min(first)],
                                  "statement requires WHERE clause">>,
                            !.risk_impact = 9]
          [] OTHER -> result

\* dict.update
Update(d, e) ==
    [k \in DOMAIN d \cup DOMAIN e |-> IF k \in DOMAIN e THEN e[k] ELSE d[k]]

\* lists kept from the evaluation before instead of fresh ones
NoFindings_kept ==
    IF policyCall.fn = "evaluate_repeatedly" /\ policyCall.results # <<>>
    THEN LET last == policyCall.results[Len(policyCall.results)]
         IN  IF last.outcome = "ok"
             THEN [violations |-> last.violations,
                   warnings |-> last.warnings,
                   applied_policies |-> last.applied_policies,
                   modifications |-> last.modifications,
                   risk_score |-> last.risk_score]
             ELSE [violations |-> <<>>, warnings |-> <<>>,
                   applied_policies |-> <<>>,
                   modifications |-> NoModification, risk_score |-> 0]
    ELSE [violations |-> <<>>, warnings |-> <<>>, applied_policies |-> <<>>,
          modifications |-> NoModification, risk_score |-> 0]

\* the lists evaluate_policy starts its loop with
NoFindings ==
    [violations |-> <<>>, warnings |-> <<>>, applied_policies |-> <<>>,
     modifications |-> NoModification, risk_score |-> 0]

\* one pass of the loop of evaluate_policy
EvaluateOne(policy, evaluation_request, found) ==
    LET policy_result == _evaluate_specific_policy(policy, evaluation_request)
    IN  IF ~policy.is_active \/ ~policy.is_enforced THEN found
        ELSE [violations |->
                  IF policy_result.violation # NoMessage
                  THEN Append(found.violations, policy_result.violation)
                  ELSE found.violations,
              risk_score |->
                  IF policy_result.violation # NoMessage
                  THEN found.risk_score + policy_result.risk_impact
                  ELSE found.risk_score,
              warnings |->
                  IF policy_result.warning # NoMessage
                  THEN Append(found.warnings, policy_result.warning)
                  ELSE found.warnings,
              applied_policies |->
                  Append(found.applied_policies, policy.name),
              modifications |->
                  IF policy_result.modification # NoModification
                  THEN Update(found.modifications,
                              policy_result.modification)
                  ELSE found.modifications]

\* the loop of evaluate_policy over the applicable policies, in list order
RECURSIVE EvaluatePolicies(_, _, _)
EvaluatePolicies(applicable_policies, evaluation_request, found) ==
    IF applicable_policies = <<>> THEN found
    ELSE EvaluatePolicies(Tail(applicable_policies), evaluation_request,
                          EvaluateOne(Head(applicable_policies),
                                      evaluation_request, found))

\* min(risk_score, 1.0), in tenths
MinRisk(risk_score) == IF risk_score <= 10 THEN risk_score ELSE 10

\* the result whose allowed flag also asks for an empty warnings list
SecurityPolicyEvaluationResult_no_warnings(found) ==
    [outcome |-> "ok", error |-> None,
     allowed |-> Len(found.violations) = 0 /\ Len(found.warnings) = 0,
     applied_policies |-> found.applied_policies,
     violations |-> found.violations,
     warnings |-> found.warnings,
     modifications |-> found.modifications,
     risk_score |-> MinRisk(found.risk_score)]

\* the SecurityPolicyEvaluationResult evaluate_policy builds after its loop
SecurityPolicyEvaluationResult(found) ==
    [outcome |-> "ok", error |-> None,
     allowed |-> Len(found.violations) = 0,
     applied_policies |-> found.applied_policies,
     violations |-> found.violations,
     warnings |-> found.warnings,
     modifications |-> found.modifications,
     risk_score |-> MinRisk(found.risk_score)]

\* evaluate_policy from the point where the applicable policies were read
EvaluateApplicable(applicable_policies, evaluation_request, user_id, user_role) ==
    IF ~can_view_system_statistics(
            [id |-> user_id, role |-> user_role, is_active |-> TRUE])
    THEN [outcome |-> "PermissionError",
          error |-> "Insufficient permissions to evaluate security policies"]
    ELSE SecurityPolicyEvaluationResult(
             EvaluatePolicies(applicable_policies, evaluation_request,
                              NoFindings))

evaluate_policy(evaluation_request, user_id, user_role) ==
    EvaluateApplicable(
        _get_applicable_policies(evaluation_request.user_role,
                                 evaluation_request.database_id),
        evaluation_request, user_id, user_role)

(***************************************************************************)
(* RBAC calls                                                              *)
(***************************************************************************)
UnaryChecks == {"can_create_template", "can_approve_template",
                "can_view_approvals", "can_manage_users", "can_create_user",
                "can_update_user", "can_delete_user",
                "can_view_all_audit_logs", "can_export_audit_logs",
                "can_configure_policies", "can_manage_database_connections",
                "can_view_system_statistics",
                "can_perform_system_administration"}

ApplyUnary(fn, user) ==
    CASE fn = "can_create_template" -> can_create_template(user)
      [] fn = "can_approve_template" -> can_approve_template(user)
      [] fn = "can_view_approvals" -> can_view_approvals(user)
      [] fn = "can_manage_users" -> can_manage_users(user)
      [] fn = "can_create_user" -> can_create_user(user)
      [] fn = "can_update_user" -> can_update_user(user)
      [] fn = "can_delete_user" -> can_delete_user(user)
      [] fn = "can_view_all_audit_logs" -> can_view_all_audit_logs(user)
      [] fn = "can_export_audit_logs" -> can_export_audit_logs(user)
      [] fn = "can_configure_policies" -> can_configure_policies(user)
      [] fn = "can_manage_database_connections" ->
             can_manage_database_connections(user)
      [] fn = "can_view_system_statistics" -> can_view_system_statistics(user)
      [] fn = "can_perform_system_administration" ->
             can_perform_system_administration(user)

SchemaNames == {"public", "PUBLIC", "staging", "admin", "audit", "private"}

ResourceTypes == {"template", "user", "database", "audit_log", "report"}

\* an RBAC call whose result has not been computed yet
RbacRequest(fn, user, arg) ==
    [fn |-> fn, user |-> user, arg |-> arg, done |-> FALSE, result |-> None]

RbacRequests ==
    {RbacRequest(fn, user, None) : fn \in UnaryChecks, user \in UserObjects}
    \cup {RbacRequest("can_execute_query", user, sql) :
              user \in UserObjects, sql \in Statements}
    \cup {RbacRequest(fn, user, creator) :
              fn \in {"can_update_template", "can_delete_template"},
              user \in UserObjects, creator \in UserIds}
    \cup {RbacRequest("can_execute_template", user, status) :
              user \in UserObjects, status \in TemplateStatus}
    \cup {RbacRequest("can_access_database", user, dbtype) :
              user \in UserObjects, dbtype \in ConnectionType}
    \cup {RbacRequest("can_access_schema", user, schema) :
              user \in UserObjects, schema \in SchemaNames}
    \cup {RbacRequest("can_view_audit_logs", user, target) :
              user \in UserObjects, target \in UserIds \cup {None}}
    \cup {RbacRequest("check_resource_access", user,
                      [resource_type |-> rtype, resource_id |-> rid]) :
              user \in UserObjects, rtype \in ResourceTypes, rid \in UserIds}
    \cup {RbacRequest("get_effective_permissions", [role |-> role], None) :
              role \in UserRole}
    \cup {RbacRequest("has_permission", [role |-> role], permission) :
              role \in UserRole, permission \in Permission}

RbacCalled(fn) == rbacCall.fn = fn /\ ~rbacCall.done

RbacReturn(result) ==
    /\ rbacCall' = [rbacCall EXCEPT !.done = TRUE, !.result = result]
    /\ UNCHANGED <<users, execCall, policyStore, policyCall, evalTask,
                   templateStore, approvalStore, workflowCall, maskCall>>

CallUnaryCheck ==
    /\ rbacCall.fn \in UnaryChecks
    /\ ~rbacCall.done
    /\ RbacReturn(ApplyUnary(rbacCall.fn, rbacCall.user))

CallCanExecuteQuery ==
    /\ RbacCalled("can_execute_query")
    /\ RbacReturn(can_execute_query(rbacCall.user, rbacCall.arg))

CallCanUpdateTemplate ==
    /\ RbacCalled("can_update_template")
    /\ RbacReturn(can_update_template(rbacCall.user, rbacCall.arg))

CallCanDeleteTemplate ==
    /\ RbacCalled("can_delete_template")
    /\ RbacReturn(can_delete_template(rbacCall.user, rbacCall.arg))

CallCanExecuteTemplate ==
    /\ RbacCalled("can_execute_template")
    /\ RbacReturn(can_execute_template(rbacCall.user, rbacCall.arg))

CallCanAccessDatabase ==
    /\ RbacCalled("can_access_database")
    /\ RbacReturn(can_access_database(rbacCall.user, rbacCall.arg))

CallCanAccessSchema ==
    /\ RbacCalled("can_access_schema")
    /\ RbacReturn(can_access_schema(rbacCall.user, rbacCall.arg))

CallCanViewAuditLogs ==
    /\ RbacCalled("can_view_audit_logs")
    /\ RbacReturn(can_view_audit_logs(rbacCall.user, rbacCall.arg))

CallCheckResourceAccess ==
    /\ RbacCalled("check_resource_access")
    /\ RbacReturn(check_resource_access(rbacCall.user,
                                        rbacCall.arg.resource_type,
                                        rbacCall.arg.resource_id))

CallGetEffectivePermissions ==
    /\ RbacCalled("get_effective_permissions")
    /\ RbacReturn(get_effective_permissions(rbacCall.user.role))

CallHasPermission ==
    /\ RbacCalled("has_permission")
    /\ RbacReturn(has_permission(rbacCall.user.role, rbacCall.arg))

(***************************************************************************)
(* Query execution calls                                                   *)
(***************************************************************************)
ExecRequests ==
    [fn : {"execute_query"}, sql : Statements, database_id : DatabaseIds,
     user_id : {"viewer-123"}, user_role : RequestRoles,
     parameters : ParameterSets, done : {FALSE}, result : {None}]

ExecuteQuery ==
    /\ execCall.fn = "execute_query"
    /\ ~execCall.done
    /\ execCall' = [execCall EXCEPT
                       !.done = TRUE,
                       !.result = execute_query(execCall.sql,
                                                execCall.database_id,
                                                execCall.user_id,
                                                execCall.user_role,
                                                execCall.parameters)]
    /\ UNCHANGED <<users, rbacCall, policyStore, policyCall, evalTask,
                   templateStore, approvalStore, workflowCall, maskCall>>

(***************************************************************************)
(* Security policy calls                                                   *)
(***************************************************************************)
PolicyDatas ==
    {[name |-> "block_ddl", policy_type |-> "BLOCK_DDL",
      value |-> [blocked_statements |-> <<"CREATE", "DROP">>],
      priority |-> "CRITICAL"],
     [name |-> "admin_rows", policy_type |-> "MAX_ROWS",
      value |-> [max_rows |-> 1000],
      applies_to |-> "ROLE", target |-> "ADMIN", priority |-> "LOW"],
     [name |-> "db_where", policy_type |-> "REQUIRE_WHERE_CLAUSE",
      value |-> <<>>, applies_to |-> "DATABASE", target |-> "test-db",
      is_enforced |-> FALSE],
     [name |-> "role_timeout", policy_type |-> "STATEMENT_TIMEOUT",
      value |-> [timeout_seconds |-> 0], applies_to |-> "ROLE"],
     [name |-> "bad_type", policy_type |-> "NO_SUCH_TYPE", value |-> <<>>],
     [name |-> "no_value", policy_type |-> "MAX_ROWS"]}

UpdateDatas ==
    {[is_active |-> FALSE],
     [priority |-> "CRITICAL"],
     [value |-> [timeout_seconds |-> 60]],
     [applies_to |-> "EVERYONE"]}

PolicyIds == {"policy-123", "uuid-1"}

\* the statements of the evaluation requests made against the policy table
RequestStatements == {<<"SELECT", "created_at">>, <<"DROP">>}

EvaluationRequests ==
    [user_id : {"viewer-123"}, user_role : UserRole,
     database_id : DatabaseIds, sql_query : RequestStatements]

\* the outcome of a policy operation, without the table
PolicyResult(r) == [outcome |-> r.outcome, error |-> r.error,
                    policy |-> r.policy]

CreatePolicy ==
    /\ Len(CreatedPolicies(policyStore)) < MaxPolicies
    /\ \E policy_data \in PolicyDatas, user_role \in UserRole :
           LET r == create_policy(policy_data, "admin-123", user_role,
                                  policyStore)
           IN  /\ policyStore' = r.store
               /\ policyCall' = [fn |-> "create_policy",
                                 during_evaluation |->
                                     evalTask.phase = "loop",
                                 policy_data |-> policy_data,
                                 user_role |-> user_role,
                                 done |-> TRUE, result |-> PolicyResult(r)]
    /\ UNCHANGED <<users, rbacCall, execCall, evalTask,
                   templateStore, approvalStore, workflowCall, maskCall>>

UpdatePolicy ==
    /\ \E policy_id \in PolicyIds, update_data \in UpdateDatas,
          user_role \in UserRole :
           LET r == update_policy(policy_id, update_data, "admin-123",
                                  user_role, policyStore)
           IN  /\ policyStore' = r.store
               /\ policyCall' = [fn |-> "update_policy",
                                 during_evaluation |->
                                     evalTask.phase = "loop",
                                 policy_id |-> policy_id,
                                 update_data |-> update_data,
                                 user_role |-> user_role,
                                 done |-> TRUE, result |-> PolicyResult(r)]
    /\ UNCHANGED <<users, rbacCall, execCall, evalTask,
                   templateStore, approvalStore, workflowCall, maskCall>>

DeletePolicy ==
    /\ \E policy_id \in PolicyIds, user_role \in UserRole :
           LET r == delete_policy(policy_id, "admin-123", user_role,
                                  policyStore)
           IN  /\ policyStore' = r.store
               /\ policyCall' = [fn |-> "delete_policy",
                                 during_evaluation |->
                                     evalTask.phase = "loop",
                                 policy_id |-> policy_id,
                                 user_role |-> user_role,
                                 done |-> TRUE, result |-> PolicyResult(r)]
    /\ UNCHANGED <<users, rbacCall, execCall, evalTask,
                   templateStore, approvalStore, workflowCall, maskCall>>

EvaluatePolicy ==
    /\ \E evaluation_request \in EvaluationRequests, user_role \in UserRole :
           policyCall' =
               [fn |-> "evaluate_policy",
                applicable_policies |->
                    _get_applicable_policies(evaluation_request.user_role,
                                             evaluation_request.database_id),
                evaluation_request |-> evaluation_request,
                user_role |-> user_role,
                done |-> TRUE,
                result |-> evaluate_policy(evaluation_request, "admin-123",
                                           user_role)]
    /\ UNCHANGED <<users, rbacCall, execCall, policyStore, evalTask,
                   templateStore, approvalStore, workflowCall, maskCall>>

\* a row as the read of the applicable policies returns it
PolicyRow(name, policy_type, value, is_active) ==
    [id |-> name, name |-> name, policy_type |-> policy_type,
     value |-> value, applies_to |-> "ALL_USERS", target |-> None,
     is_active |-> is_active, is_enforced |-> TRUE]

ApplicableRows ==
    {PolicyRow("viewer_timeout", "STATEMENT_TIMEOUT",
               [timeout_seconds |-> 30], TRUE),
     PolicyRow("max_rows", "MAX_ROWS", [max_rows |-> 1000], TRUE),
     PolicyRow("block_ddl", "BLOCK_DDL",
               [blocked_statements |-> <<"CREATE", "DROP">>], TRUE),
     PolicyRow("block_dml", "BLOCK_DML",
               [blocked_statements |-> <<"UPDATE">>], TRUE),
     PolicyRow("require_where", "REQUIRE_WHERE_CLAUSE", <<>>, TRUE),
     PolicyRow("auto_limit", "AUTO_LIMIT", [default_limit |-> 1000], TRUE),
     PolicyRow("block_select_off", "BLOCK_DML",
               [blocked_statements |-> <<"SELECT">>], FALSE)}

PolicyLists == UNION {[1..n -> ApplicableRows] : n \in 0..MaxPolicies}

EvalTokens == {"SELECT", "created_at", "UPDATE", "WHERE", "DROP"}

EvalStatements == UNION {[1..n -> EvalTokens] : n \in 0..MaxLen}

\* evaluations whose applicable policies are those of a populated table
EvaluateRequests ==
    [fn : {"evaluate_applicable"}, applicable_policies : PolicyLists,
     evaluation_request :
         [user_id : {"viewer-123"}, user_role : {"VIEWER"},
          database_id : {"test-db"}, sql_query : EvalStatements],
     user_role : {"ADMIN"}, done : {FALSE}, result : {None}]

EvaluateApplicablePolicies ==
    /\ policyCall.fn = "evaluate_applicable"
    /\ ~policyCall.done
    /\ policyCall' =
           [policyCall EXCEPT
               !.done = TRUE,
               !.result = EvaluateApplicable(policyCall.applicable_policies,
                                             policyCall.evaluation_request,
                                             "admin-123",
                                             policyCall.user_role)]
    /\ UNCHANGED <<users, rbacCall, execCall, policyStore, evalTask,
                   templateStore, approvalStore, workflowCall, maskCall>>

\* the number of evaluations made one after the other
MaxEvaluations == 3

\* evaluations to be made one after the other by one caller
RepeatedRequests ==
    [fn : {"evaluate_repeatedly"},
     requests : [1..MaxEvaluations -> EvaluationRequests],
     user_role : {"OPERATOR", "ADMIN"},
     results : {<<>>}]

\* the next evaluate_policy call of the row
EvaluateNext ==
    /\ policyCall.fn = "evaluate_repeatedly"
    /\ Len(policyCall.results) < Len(policyCall.requests)
    /\ policyCall' =
           [policyCall EXCEPT
               !.results =
                   Append(@, evaluate_policy(
                                 policyCall.requests[Len(@) + 1],
                                 "admin-123", policyCall.user_role))]
    /\ UNCHANGED <<users, rbacCall, execCall, policyStore, evalTask,
                   templateStore, approvalStore, workflowCall, maskCall>>

\* the number of times the rewrite is applied to its own result
MaxRewrites == 2

LimitTokens == {"SELECT", "created_at", "rate_limit", "LIMIT", ";"}

LimitStatements == UNION {[1..n -> LimitTokens] : n \in 0..MaxLen}

\* statements to be rewritten, and rewritten again, for a role on a connection
RewriteRequests ==
    [fn : {"_apply_security_policies"}, sql : LimitStatements,
     user_role : UserRole, connection_type : ConnectionType,
     results : {<<>>}]

\* _apply_security_policies on the statement, then on its own result
ApplySecurityPolicies ==
    /\ execCall.fn = "_apply_security_policies"
    /\ Len(execCall.results) < MaxRewrites
    /\ execCall' =
           [execCall EXCEPT
               !.results =
                   Append(@, _apply_security_policies(
                                 IF @ = <<>> THEN execCall.sql
                                 ELSE @[Len(@)],
                                 execCall.user_role,
                                 [id |-> "test-db",
                                  connection_type |->
                                      execCall.connection_type,
                                  query_timeout |-> 30]))]
    /\ UNCHANGED <<users, rbacCall, policyStore, policyCall, evalTask,
                   templateStore, approvalStore, workflowCall, maskCall>>

\* statements with a personal value in them, for the calls whose audit and
\* log records are inspected
LogTokens == {"SELECT", "a@b.co", "UNION", "DROP"}

LogStatements == UNION {[1..n -> LogTokens] : n \in 0..MaxLen}

LogRequests ==
    [fn : {"execute_query"}, sql : LogStatements, database_id : DatabaseIds,
     user_id : {"viewer-123"}, user_role : RequestRoles,
     parameters : {<<>>}, done : {FALSE}, result : {None}]

\* the requests of the evaluations that run while the table is written
InflightRequests ==
    [user_id : {"viewer-123"}, user_role : {"VIEWER"},
     database_id : {"test-db"}, sql_query : {<<"DROP">>}]

\* evaluate_policy up to its loop: the permission check, the read of the
\* applicable policies into a local list, the empty result lists
StartEvaluation ==
    /\ evalTask.phase = "idle"
    /\ \E evaluation_request \in InflightRequests,
          user_role \in {"ADMIN"} :
           evalTask' =
               IF ~can_view_system_statistics(
                       [id |-> "admin-123", role |-> user_role,
                        is_active |-> TRUE])
               THEN [phase |-> "done",
                     evaluation_request |-> evaluation_request,
                     user_role |-> user_role,
                     applicable_policies |-> <<>>, remaining |-> <<>>,
                     found |-> NoFindings,
                     result |-> EvaluateApplicable(<<>>, evaluation_request,
                                                   "admin-123", user_role)]
               ELSE [phase |-> "loop",
                     evaluation_request |-> evaluation_request,
                     user_role |-> user_role,
                     applicable_policies |->
                         _get_applicable_policies(
                             evaluation_request.user_role,
                             evaluation_request.database_id),
                     remaining |->
                         _get_applicable_policies(
                             evaluation_request.user_role,
                             evaluation_request.database_id),
                     found |-> NoFindings,
                     result |-> [outcome |-> None]]
    /\ UNCHANGED <<users, rbacCall, execCall, policyStore, policyCall,
                   templateStore, approvalStore, workflowCall, maskCall>>

\* the row of the table with the id of the next policy of the local list
LoopPolicy_reread(task) ==
    IF \E i \in 1..Len(policyStore) :
           policyStore[i].id = Head(task.remaining).id
    THEN policyStore[CHOOSE i \in 1..Len(policyStore) :
                         policyStore[i].id = Head(task.remaining).id]
    ELSE [Head(task.remaining) EXCEPT !.is_active = FALSE]

\* `for policy in applicable_policies`: the next policy of the local list
LoopPolicy(task) == Head(task.remaining)

\* one pass of the loop of evaluate_policy, up to the next await
EvaluateStep ==
    /\ evalTask.phase = "loop"
    /\ evalTask.remaining # <<>>
    /\ evalTask' =
           [evalTask EXCEPT
               !.found = EvaluateOne(LoopPolicy(evalTask),
                                     evalTask.evaluation_request, @),
               !.remaining = Tail(@)]
    /\ UNCHANGED <<users, rbacCall, execCall, policyStore, policyCall,
                   templateStore, approvalStore, workflowCall, maskCall>>

\* evaluate_policy after its loop: the result is built and returned
FinishEvaluation ==
    /\ evalTask.phase = "loop"
    /\ evalTask.remaining = <<>>
    /\ evalTask' =
           [evalTask EXCEPT
               !.phase = "done",
               !.result = SecurityPolicyEvaluationResult(evalTask.found)]
    /\ UNCHANGED <<users, rbacCall, execCall, policyStore, policyCall,
                   templateStore, approvalStore, workflowCall, maskCall>>

(***************************************************************************)
(* Template approval workflow (services/template_service.py,               *)
(* services/approval_service.py)                                           *)
(***************************************************************************)
\* the most templates created and approval requests submitted in a behaviour
MaxTemplates == 1

MaxSubmissions == 1

\* the templates table and the approval-requests table as the simulated reads
\* describe them: template-123 under review by approver-456
TemplateTable ==
    <<[id |-> "template-123", name |-> "user_analysis",
       sql_content |-> <<"SELECT", "created_at", "WHERE", ":id">>,
       version |-> 1, status |-> "PENDING_APPROVAL",
       created_by |-> "user-123"]>>

ApprovalTable ==
    <<[id |-> "approval-123", template_id |-> "template-123",
       requested_by |-> "user-123", assigned_to |-> "approver-456",
       status |-> "PENDING", comments |-> "Please review this template"]>>

\* TemplateService._get_template: the simulated read by id; it does not
\* consult the table and always reports the status APPROVED
TemplateService_get_template(template_id) ==
    IF template_id = "template-123"
    THEN [id |-> template_id, name |-> "user_analysis",
          sql_content |-> <<"SELECT", "created_at", "WHERE", ":id">>,
          version |-> 1, status |-> "APPROVED", created_by |-> "user-123"]
    ELSE [id |-> None]

\* ApprovalService._get_template: the simulated read by id; it does not
\* consult the table and always reports the status DRAFT
ApprovalService_get_template(template_id) ==
    IF template_id = "template-123"
    THEN [id |-> template_id, name |-> "user_analysis",
          sql_content |-> <<"SELECT", "created_at", "WHERE", ":id">>,
          version |-> 1, status |-> "DRAFT", created_by |-> "user-123"]
    ELSE [id |-> None]

\* ApprovalService._get_approval_request: the simulated read by id; it does
\* not consult the table and always reports the status PENDING
_get_approval_request(approval_id) ==
    IF approval_id = "approval-123"
    THEN [id |-> approval_id, template_id |-> "template-123",
          requested_by |-> "user-123", assigned_to |-> "approver-456",
          status |-> "PENDING", comments |-> "Please review this template"]
    ELSE [id |-> None]

\* _save_template and _save_approval_request hand the row to its table: a row
\* with the same id is replaced, a new one is added at the end
SaveRow(table, row) ==
    IF \E i \in 1..Len(table) : table[i].id = row.id
    THEN [i \in 1..Len(table) |->
             IF table[i].id = row.id THEN row ELSE table[i]]
    ELSE Append(table, row)

\* _update_template_status sets the status of the row with the id
_update_template_status(table, template_id, status) ==
    [i \in 1..Len(table) |->
        IF table[i].id = template_id
        THEN [table[i] EXCEPT !.status = status]
        ELSE table[i]]

\* _render_template: every placeholder :name of the text is replaced by the
\* value bound to name (no value of the model holds a placeholder itself)
RECURSIVE _render_template(_, _)
_render_template(sql, parameters) ==
    IF sql = <<>> THEN <<>>
    ELSE LET bound == {k \in DOMAIN parameters :
                          Chars(Head(sql)) = <<":">> \o Chars(k)}
         IN  (IF bound = {} THEN <<Head(sql)>>
              ELSE parameters[CHOOSE k \in bound : TRUE])
             \o _render_template(Tail(sql), parameters)

\* the callers of the workflow: user id and the role handed in with it
WorkflowCallers ==
    {[user_id |-> "user-123", user_role |-> "OPERATOR"],
     [user_id |-> "approver-456", user_role |-> "APPROVER"],
     [user_id |-> "admin-123", user_role |-> "ADMIN"],
     [user_id |-> "viewer-123", user_role |-> "VIEWER"]}

CallerUser(caller) ==
    [id |-> caller.user_id, role |-> caller.user_role, is_active |-> TRUE]

TemplateIds == {"template-123", "uuid-1"}

\* the outcome of a workflow call, as the caller sees it
WorkflowReturn(fn, caller, arg, outcome, error, result) ==
    workflowCall' = [fn |-> fn, caller |-> caller, arg |-> arg,
                     outcome |-> outcome, error |-> error, result |-> result]

\* a call that raised returns nothing
Raised == [executed |-> FALSE]

TemplateDatas ==
    {[name |-> "report", sql_content |-> <<"SELECT", "created_at">>],
     [name |-> "report"]}

TemplateUpdates ==
    {[name |-> "user_analysis", sql_content |-> <<"DROP">>],
     [sql_content |-> <<"DROP">>]}

\* _validate_template_data: the message of the ValueError raised, or None
_validate_template_data(template_data) ==
    IF "name" \notin DOMAIN template_data
    THEN "Missing required field: name"
    ELSE IF "sql_content" \notin DOMAIN template_data
    THEN "Missing required field: sql_content"
    ELSE IF template_data.name = ""
    THEN "Template name cannot be empty"
    ELSE IF template_data.sql_content = <<>>
    THEN "SQL content cannot be empty"
    ELSE None

\* TemplateService.create_template
CreateTemplate ==
    /\ Len(templateStore) <= MaxTemplates
    /\ \E caller \in WorkflowCallers, template_data \in TemplateDatas :
          LET template ==
                  [id |-> "uuid-" \o ToString(Len(templateStore)),
                   name |-> template_data.name,
                   sql_content |-> template_data.sql_content,
                   version |-> 1, status |-> "DRAFT",
                   created_by |-> caller.user_id]
          IN  IF ~can_create_template(CallerUser(caller))
              THEN /\ WorkflowReturn("create_template", caller,
                         template_data, "PermissionError",
                         "Insufficient permissions to create templates",
                         Raised)
                   /\ UNCHANGED templateStore
              ELSE IF _validate_template_data(template_data) # None
              THEN /\ WorkflowReturn("create_template", caller,
                         template_data, "ValueError",
                         _validate_template_data(template_data), Raised)
                   /\ UNCHANGED templateStore
              ELSE /\ templateStore' = SaveRow(templateStore, template)
                   /\ WorkflowReturn("create_template", caller,
                         template_data, "ok", None,
                         [executed |-> FALSE, template |-> template])
    /\ UNCHANGED <<users, rbacCall, execCall, policyStore, policyCall,
                   evalTask, approvalStore, maskCall>>

\* TemplateService.update_template
UpdateTemplate ==
    /\ \E caller \in WorkflowCallers, template_id \in TemplateIds,
          update_data \in TemplateUpdates :
          LET template == TemplateService_get_template(template_id)
              arg == [template_id |-> template_id,
                      update_data |-> update_data]
              updated_template ==
                  [id |-> template_id,
                   name |-> Get(update_data, "name", template.name),
                   sql_content |-> Get(update_data, "sql_content",
                                       template.sql_content),
                   version |-> template.version + 1, status |-> "DRAFT",
                   created_by |-> template.created_by]
          IN  IF template.id = None
              THEN /\ WorkflowReturn("update_template", caller, arg,
                         "ValueError", "Template not found", Raised)
                   /\ UNCHANGED templateStore
              ELSE IF ~can_update_template(CallerUser(caller),
                                           template.created_by)
              THEN /\ WorkflowReturn("update_template", caller, arg,
                         "PermissionError",
                         "Insufficient permissions to update this template",
                         Raised)
                   /\ UNCHANGED templateStore
              ELSE IF /\ "sql_content" \in DOMAIN update_data
                      /\ _validate_template_data(update_data) # None
              THEN /\ WorkflowReturn("update_template", caller, arg,
                         "ValueError", _validate_template_data(update_data),
                         Raised)
                   /\ UNCHANGED templateStore
              ELSE /\ templateStore' = SaveRow(templateStore,
                                               updated_template)
                   /\ WorkflowReturn("update_template", caller, arg, "ok",
                         None,
                         [executed |-> FALSE, template |-> updated_template])
    /\ UNCHANGED <<users, rbacCall, execCall, policyStore, policyCall,
                   evalTask, approvalStore, maskCall>>

\* the parameter dictionaries handed to execute_template
TemplateParameters == {<<>>, [n \in {"id"} |-> <<"created_at">>]}

\* TemplateService.execute_template; the template declares the parameter id
\* as required
ExecuteTemplate ==
    /\ \E caller \in WorkflowCallers, template_id \in TemplateIds,
          parameters \in TemplateParameters :
          LET template == TemplateService_get_template(template_id)
              arg == [template_id |-> template_id,
                      parameters |-> parameters]
          IN  IF template.id = None
              THEN WorkflowReturn("execute_template", caller, arg,
                       "ValueError", "Template not found", Raised)
              ELSE IF template.status # "APPROVED"
              THEN WorkflowReturn("execute_template", caller, arg,
                       "PermissionError",
                       "Template not approved for execution", Raised)
              ELSE IF ~can_execute_template(CallerUser(caller), "APPROVED")
              THEN WorkflowReturn("execute_template", caller, arg,
                       "PermissionError",
                       "Insufficient permissions to execute templates",
                       Raised)
              ELSE IF "id" \notin DOMAIN parameters
              THEN WorkflowReturn("execute_template", caller, arg,
                       "ValueError", "Missing required parameter", Raised)
              ELSE WorkflowReturn("execute_template", caller, arg, "ok",
                       None,
                       [executed |-> TRUE,
                        rendered_sql |->
                            _render_template(template.sql_content,
                                             parameters)])
    /\ UNCHANGED <<users, rbacCall, execCall, policyStore, policyCall,
                   evalTask, templateStore, approvalStore, maskCall>>

\* the outcome of process_approval that raised: both tables as they were
ApprovalFailed(exception, message, templates, approvals) ==
    [outcome |-> exception, error |-> message, templates |-> templates,
     approvals |-> approvals]

\* ApprovalService.process_approval on the two tables
process_approval(approval_id, action, user_id, user_role, comments, templates, approvals) ==
    LET approval_request == _get_approval_request(approval_id)
        updated_approval ==
            [id |-> approval_id,
             template_id |-> approval_request.template_id,
             requested_by |-> approval_request.requested_by,
             assigned_to |-> approval_request.assigned_to,
             status |-> IF action = "APPROVE" THEN "APPROVED"
                        ELSE "REJECTED",
             comments |-> IF comments \in {None, ""}
                          THEN approval_request.comments ELSE comments]
    IN  IF ~can_approve_template(
                [id |-> user_id, role |-> user_role, is_active |-> TRUE])
        THEN ApprovalFailed("PermissionError",
                 "Insufficient permissions to process approvals",
                 templates, approvals)
        ELSE IF approval_request.id = None
        THEN ApprovalFailed("ValueError", "Approval request not found",
                            templates, approvals)
        ELSE IF approval_request.assigned_to # user_id
        THEN ApprovalFailed("PermissionError",
                 "You are not assigned to this approval request",
                 templates, approvals)
        ELSE IF approval_request.status # "PENDING"
        THEN ApprovalFailed("ValueError",
                 "Approval request is no longer pending",
                 templates, approvals)
        ELSE IF action = "REJECT" /\ comments \in {None, ""}
        THEN ApprovalFailed("ValueError",
                 "Comments are required when rejecting a template",
                 templates, approvals)
        ELSE [outcome |-> "ok", error |-> None,
              templates |->
                  _update_template_status(templates,
                      approval_request.template_id,
                      IF action = "APPROVE" THEN "APPROVED" ELSE "REJECTED"),
              approvals |-> SaveRow(approvals, updated_approval)]

\* the loop of bulk_process_approvals: every id is processed in turn, a
\* failure is counted and the loop goes on
RECURSIVE BulkLoop(_, _, _, _, _, _, _)
BulkLoop(approval_ids, action, user_id, user_role, comments, templates, approvals) ==
    IF approval_ids = <<>>
    THEN [succeeded |-> 0, failed_count |-> 0, templates |-> templates,
          approvals |-> approvals]
    ELSE LET r == process_approval(Head(approval_ids), action, user_id,
                                   user_role, comments, templates, approvals)
             rest == BulkLoop(Tail(approval_ids), action, user_id, user_role,
                              comments, r.templates, r.approvals)
         IN  [rest EXCEPT
                 !.succeeded = @ + (IF r.outcome = "ok" THEN 1 ELSE 0),
                 !.failed_count = @ + (IF r.outcome = "ok" THEN 0 ELSE 1)]

ApprovalIds == {"approval-123", "uuid-1"}

ApprovalActions == {"APPROVE", "REJECT"}

ApprovalComments == {None, "needs work"}

Reviewers == {"approver-789"}

\* ApprovalService.submit_for_approval
SubmitForApproval ==
    /\ Len(approvalStore) <= MaxSubmissions
    /\ \E caller \in WorkflowCallers, template_id \in TemplateIds,
          assigned_to \in Reviewers :
          LET template == ApprovalService_get_template(template_id)
              arg == [template_id |-> template_id,
                      assigned_to |-> assigned_to]
              approval_request ==
                  [id |-> "uuid-" \o ToString(Len(approvalStore)),
                   template_id |-> template_id,
                   requested_by |-> caller.user_id,
                   assigned_to |-> assigned_to,
                   status |-> "PENDING", comments |-> None]
          IN  IF ~can_view_approvals(CallerUser(caller))
              THEN /\ WorkflowReturn("submit_for_approval", caller, arg,
                         "PermissionError",
                         "Insufficient permissions to submit for approval",
                         Raised)
                   /\ UNCHANGED <<templateStore, approvalStore, maskCall>>
              ELSE IF template.id = None
              THEN /\ WorkflowReturn("submit_for_approval", caller, arg,
                         "ValueError", "Template not found", Raised)
                   /\ UNCHANGED <<templateStore, approvalStore, maskCall>>
              ELSE IF template.status # "DRAFT"
              THEN /\ WorkflowReturn("submit_for_approval", caller, arg,
                         "ValueError",
                         "Only draft templates can be submitted for approval",
                         Raised)
                   /\ UNCHANGED <<templateStore, approvalStore, maskCall>>
              ELSE /\ approvalStore' = SaveRow(approvalStore,
                                               approval_request)
                   /\ templateStore' =
                          _update_template_status(templateStore, template_id,
                                                  "PENDING_APPROVAL")
                   /\ WorkflowReturn("submit_for_approval", caller, arg,
                         "ok", None,
                         [executed |-> FALSE,
                          approval_request |-> approval_request])
    /\ UNCHANGED <<users, rbacCall, execCall, policyStore, policyCall,
                   evalTask, maskCall>>

ProcessApproval ==
    /\ \E caller \in WorkflowCallers, approval_id \in ApprovalIds,
          action \in ApprovalActions, comments \in ApprovalComments :
          LET r == process_approval(approval_id, action, caller.user_id,
                                    caller.user_role, comments,
                                    templateStore, approvalStore)
          IN  /\ templateStore' = r.templates
              /\ approvalStore' = r.approvals
              /\ WorkflowReturn("process_approval", caller,
                     [approval_id |-> approval_id, action |-> action,
                      comments |-> comments],
                     r.outcome, r.error, [executed |-> FALSE])
    /\ UNCHANGED <<users, rbacCall, execCall, policyStore, policyCall,
                   evalTask, maskCall>>

\* the id lists handed to bulk_process_approvals
ApprovalIdLists ==
    {<<"approval-123", "approval-123">>, <<"uuid-1", "approval-123">>}

\* ApprovalService.bulk_process_approvals
BulkProcessApprovals ==
    /\ \E caller \in WorkflowCallers, approval_ids \in ApprovalIdLists,
          action \in ApprovalActions, comments \in ApprovalComments :
          LET arg == [approval_ids |-> approval_ids, action |-> action,
                      comments |-> comments]
              r == BulkLoop(approval_ids, action, caller.user_id,
                            caller.user_role, comments, templateStore,
                            approvalStore)
          IN  IF ~can_approve_template(CallerUser(caller))
              THEN /\ WorkflowReturn("bulk_process_approvals", caller, arg,
                         "PermissionError",
                         "Insufficient permissions to process approvals",
                         Raised)
                   /\ UNCHANGED <<templateStore, approvalStore, maskCall>>
              ELSE /\ templateStore' = r.templates
                   /\ approvalStore' = r.approvals
                   /\ WorkflowReturn("bulk_process_approvals", caller, arg,
                         "ok", None,
                         [executed |-> FALSE, succeeded |-> r.succeeded,
                          failed_count |-> r.failed_count])
    /\ UNCHANGED <<users, rbacCall, execCall, policyStore, policyCall,
                   evalTask, maskCall>>

\* models/sql_template.py and models/approval_request.py: the status
\* transition tables and their lookups; no service calls either lookup
TEMPLATE_STATUS_TRANSITIONS ==
    [current_status \in {"DRAFT", "PENDING_APPROVAL", "APPROVED", "REJECTED"}
        |-> CASE current_status = "DRAFT" -> {"PENDING_APPROVAL"}
              [] current_status = "PENDING_APPROVAL" -> {"APPROVED", "REJECTED"}
              [] current_status = "APPROVED" -> {"DRAFT"}
              [] current_status = "REJECTED" -> {"DRAFT"}]

can_transition_status(current_status, new_status) ==
    /\ current_status \in DOMAIN TEMPLATE_STATUS_TRANSITIONS
    /\ new_status \in TEMPLATE_STATUS_TRANSITIONS[current_status]

APPROVAL_STATUS_TRANSITIONS ==
    [current_status \in {"PENDING", "APPROVED", "REJECTED"}
        |-> IF current_status = "PENDING" THEN {"APPROVED", "REJECTED"}
            ELSE {}]

can_transition_approval_status(current_status, new_status) ==
    /\ current_status \in DOMAIN APPROVAL_STATUS_TRANSITIONS
    /\ new_status \in APPROVAL_STATUS_TRANSITIONS[current_status]

(***************************************************************************)
(* Template execution by the execution service                             *)
(* (services/sql_execution_service.py)                                     *)
(***************************************************************************)
\* SQLExecutionService._get_template: the simulated read by id, an APPROVED
\* template with a named placeholder
SQLExecutionService_get_template(template_id) ==
    IF template_id = "template-123"
    THEN [id |-> template_id, name |-> "user_analysis",
          sql_content |-> <<"SELECT", "created_at", "WHERE", ":id">>,
          status |-> "APPROVED"]
    ELSE [id |-> None]

SQLExecutionService_render_template(template, parameters) ==
    _render_template(template.sql_content, parameters)

_log_template_execution(user_id) ==
    [audit |-> <<AuditRecord("TEMPLATE_EXECUTED", "INFO", user_id, None)>>,
     log |-> <<LogLine("info", "Template execution logged", None)>>]

\* the except branch of execute_template: the failure is logged and re-raised
TemplateFailed(result) ==
    [result EXCEPT
        !.log = @ \o <<LogLine("error", "Template execution failed", None)>>]

SQLExecutionService_execute_template(template_id, database_id, user_id, user_role, parameters) ==
    LET template == SQLExecutionService_get_template(template_id)
        rendered_sql ==
            SQLExecutionService_render_template(template, parameters)
        result == execute_query(rendered_sql, database_id, user_id,
                                user_role, parameters)
        raised(exception, message) ==
            [outcome |-> exception, error |-> message, validation |-> None,
             policies_applied |-> FALSE, executed |-> FALSE,
             executed_sql |-> None, row_count |-> 0, audit |-> <<>>,
             log |-> <<>>]
    IN  IF template.id = None
        THEN TemplateFailed(raised("ValueError", "Template not found"))
        ELSE IF template.status # "APPROVED"
        THEN TemplateFailed(raised("PermissionError",
                                   "Template not approved for execution"))
        ELSE IF result.outcome # "ok" THEN TemplateFailed(result)
        ELSE [result EXCEPT
                 !.audit = @ \o _log_template_execution(user_id).audit,
                 !.log = @ \o _log_template_execution(user_id).log]

TemplateExecRequests ==
    [fn : {"execute_template"}, template_id : {"template-123", "template-404"},
     database_id : DatabaseIds, user_id : {"viewer-123"},
     user_role : RequestRoles, parameters : ParameterSets, done : {FALSE},
     result : {None}]

ExecuteTemplateQuery ==
    /\ execCall.fn = "execute_template"
    /\ ~execCall.done
    /\ execCall' = [execCall EXCEPT
                       !.done = TRUE,
                       !.result = SQLExecutionService_execute_template(
                                      execCall.template_id,
                                      execCall.database_id,
                                      execCall.user_id,
                                      execCall.user_role,
                                      execCall.parameters)]
    /\ UNCHANGED <<users, rbacCall, policyStore, policyCall, evalTask,
                   templateStore, approvalStore, workflowCall, maskCall>>

(***************************************************************************)
(* Structured masking (security/pii_masker.py)                             *)
(***************************************************************************)
MaxDepth == 2

MaxItems == 1

\* Python values: a str is [str |-> its text], an int [int |-> n], a dict
\* [dict |-> its values by key] and a list [list |-> its items]
IsStr(value) == "str" \in DOMAIN value

IsDict(value) == "dict" \in DOMAIN value

IsList(value) == "list" \in DOMAIN value

\* ''.join of a character sequence
RECURSIVE Join(_)
Join(cs) == IF cs = <<>> THEN "" ELSE Head(cs) \o Join(Tail(cs))

Stars(n) == [i \in 1..n |-> "*"]

_generic_mask(value) ==
    LET cs == Text(value)
        n == Len(cs)
    IN  IF n <= 4 THEN <<Join(Stars(n))>>
        ELSE IF n <= 8
        THEN <<Join(SubSeq(cs, 1, 2) \o Stars(n - 4) \o SubSeq(cs, n - 1, n))>>
        ELSE <<Join(SubSeq(cs, 1, 3) \o Stars(n - 6) \o SubSeq(cs, n - 2, n))>>

\* the loop of _mask_by_type over the patterns still to be tried
RECURSIVE MaskByTypeFrom(_, _, _)
MaskByTypeFrom(patterns, value, pii_type) ==
    IF patterns = <<>> THEN _generic_mask(value)
    ELSE IF Head(patterns).pii_type = pii_type
    THEN SubPattern(Head(patterns), value)
    ELSE MaskByTypeFrom(Tail(patterns), value, pii_type)

_mask_by_type(value, pii_type) ==
    MaskByTypeFrom(pii_patterns, value, pii_type)

\* column_mapping is a function from column names to PII types; None and {}
\* are both the empty function (`if column_mapping and key in column_mapping`)
RECURSIVE mask_data(_, _)
mask_data(data, column_mapping) ==
    IF IsList(data)
    THEN [list |-> [i \in 1..Len(data.list) |->
                       mask_data(data.list[i], column_mapping)]]
    ELSE IF ~IsDict(data) THEN data
    ELSE [dict |->
            [key \in DOMAIN data.dict |->
                LET value == data.dict[key]
                IN  IF IsStr(value)
                    THEN IF key \in DOMAIN column_mapping
                         THEN [str |-> _mask_by_type(value.str,
                                                     column_mapping[key])]
                         ELSE [str |-> mask_pii_in_text(value.str)]
                    ELSE IF IsDict(value)
                    THEN mask_data(value, column_mapping)
                    ELSE IF IsList(value)
                    THEN [list |->
                            [i \in 1..Len(value.list) |->
                                IF IsDict(value.list[i])
                                THEN mask_data(value.list[i], column_mapping)
                                ELSE value.list[i]]]
                    ELSE value]]

Leaves == {[str |-> <<"a@b.co">>], [int |-> 1]}

ColumnNames == {"email", "note"}

\* the values nested at most depth containers deep
RECURSIVE Values(_)
Values(depth) ==
    IF depth = 0 THEN Leaves
    ELSE LET inner == Values(depth - 1)
         IN  inner
             \cup {[dict |-> [k \in {key} |-> value]] :
                      key \in ColumnNames, value \in inner}
             \cup {[list |-> items] :
                      items \in UNION {[1..n -> inner] : n \in 0..MaxItems}}

ColumnMappings == {<<>>, [k \in {"email"} |-> "EMAIL"],
                   [k \in {"email"} |-> "NAME"]}

MaskRequests ==
    {[fn |-> "mask_data", data |-> data, column_mapping |-> column_mapping,
      done |-> FALSE] :
        data \in Values(MaxDepth) \ Leaves,
        column_mapping \in ColumnMappings}

MaskData ==
    /\ maskCall.fn = "mask_data"
    /\ ~maskCall.done
    /\ maskCall' = [fn |-> "mask_data", data |-> maskCall.data,
                    column_mapping |-> maskCall.column_mapping,
                    done |-> TRUE,
                    result |-> mask_data(maskCall.data,
                                         maskCall.column_mapping)]
    /\ UNCHANGED <<users, rbacCall, execCall, policyStore, policyCall,
                   evalTask, templateStore, approvalStore, workflowCall>>

(***************************************************************************)
(* Initial states                                                          *)
(***************************************************************************)
NoCall == [fn |-> None]

\* no evaluation in flight
NoTask == [phase |-> "idle"]

\* the authoritative user records
UserTable ==
    [id \in UserIds |->
        IF id = "viewer-123"
        THEN [role |-> "VIEWER", is_active |-> TRUE]
        ELSE [role |-> "ADMIN", is_active |-> TRUE]]

InitRBAC ==
    /\ users = UserTable
    /\ rbacCall \in RbacRequests
    /\ execCall = NoCall
    /\ policyStore = <<>>
    /\ policyCall = NoCall
    /\ evalTask = NoTask
    /\ templateStore = TemplateTable
    /\ approvalStore = ApprovalTable
    /\ workflowCall = NoCall
    /\ maskCall = NoCall

NextRBAC ==
    \/ CallUnaryCheck
    \/ CallCanExecuteQuery
    \/ CallCanUpdateTemplate
    \/ CallCanDeleteTemplate
    \/ CallCanExecuteTemplate
    \/ CallCanAccessDatabase
    \/ CallCanAccessSchema
    \/ CallCanViewAuditLogs
    \/ CallCheckResourceAccess
    \/ CallGetEffectivePermissions
    \/ CallHasPermission

SpecRBAC == InitRBAC /\ [][NextRBAC]_vars

InitExec ==
    /\ users = UserTable
    /\ rbacCall = NoCall
    /\ execCall \in ExecRequests
    /\ policyStore = <<>>
    /\ policyCall = NoCall
    /\ evalTask = NoTask
    /\ templateStore = TemplateTable
    /\ approvalStore = ApprovalTable
    /\ workflowCall = NoCall
    /\ maskCall = NoCall

NextExec == ExecuteQuery

SpecExec == InitExec /\ [][NextExec]_vars

InitPolicy ==
    /\ users = UserTable
    /\ rbacCall = NoCall
    /\ execCall = NoCall
    /\ policyStore = <<_get_policy("policy-123")>>
    /\ policyCall = NoCall
    /\ evalTask = NoTask
    /\ templateStore = TemplateTable
    /\ approvalStore = ApprovalTable
    /\ workflowCall = NoCall
    /\ maskCall = NoCall

NextPolicy ==
    \/ CreatePolicy
    \/ UpdatePolicy
    \/ DeletePolicy
    \/ EvaluatePolicy

SpecPolicy == InitPolicy /\ [][NextPolicy]_vars

InitEval ==
    /\ users = UserTable
    /\ rbacCall = NoCall
    /\ execCall = NoCall
    /\ policyStore = <<>>
    /\ policyCall \in EvaluateRequests
    /\ evalTask = NoTask
    /\ templateStore = TemplateTable
    /\ approvalStore = ApprovalTable
    /\ workflowCall = NoCall
    /\ maskCall = NoCall

NextEval == EvaluateApplicablePolicies

SpecEval == InitEval /\ [][NextEval]_vars

InitRepeat ==
    /\ users = UserTable
    /\ rbacCall = NoCall
    /\ execCall = NoCall
    /\ policyStore = <<_get_policy("policy-123")>>
    /\ policyCall \in RepeatedRequests
    /\ evalTask = NoTask
    /\ templateStore = TemplateTable
    /\ approvalStore = ApprovalTable
    /\ workflowCall = NoCall
    /\ maskCall = NoCall

NextRepeat == EvaluateNext

SpecRepeat == InitRepeat /\ [][NextRepeat]_vars

InitLimit ==
    /\ users = UserTable
    /\ rbacCall = NoCall
    /\ execCall \in RewriteRequests
    /\ policyStore = <<>>
    /\ policyCall = NoCall
    /\ evalTask = NoTask
    /\ templateStore = TemplateTable
    /\ approvalStore = ApprovalTable
    /\ workflowCall = NoCall
    /\ maskCall = NoCall

NextLimit == ApplySecurityPolicies

SpecLimit == InitLimit /\ [][NextLimit]_vars

InitLog ==
    /\ users = UserTable
    /\ rbacCall = NoCall
    /\ execCall \in LogRequests
    /\ policyStore = <<>>
    /\ policyCall = NoCall
    /\ evalTask = NoTask
    /\ templateStore = TemplateTable
    /\ approvalStore = ApprovalTable
    /\ workflowCall = NoCall
    /\ maskCall = NoCall

NextLog == ExecuteQuery

SpecLog == InitLog /\ [][NextLog]_vars

InitWorkflow ==
    /\ users = UserTable
    /\ rbacCall = NoCall
    /\ execCall = NoCall
    /\ policyStore = <<>>
    /\ policyCall = NoCall
    /\ evalTask = NoTask
    /\ templateStore = TemplateTable
    /\ approvalStore = ApprovalTable
    /\ workflowCall = NoCall
    /\ maskCall = NoCall

NextWorkflow ==
    \/ CreateTemplate
    \/ UpdateTemplate
    \/ ExecuteTemplate
    \/ SubmitForApproval
    \/ ProcessApproval
    \/ BulkProcessApprovals

SpecWorkflow == InitWorkflow /\ [][NextWorkflow]_vars

InitMask ==
    /\ users = UserTable
    /\ rbacCall = NoCall
    /\ execCall = NoCall
    /\ policyStore = <<>>
    /\ policyCall = NoCall
    /\ evalTask = NoTask
    /\ templateStore = TemplateTable
    /\ approvalStore = ApprovalTable
    /\ workflowCall = NoCall
    /\ maskCall \in MaskRequests

NextMask == MaskData

SpecMask == InitMask /\ [][NextMask]_vars

InitTemplateExec ==
    /\ users = UserTable
    /\ rbacCall = NoCall
    /\ execCall \in TemplateExecRequests
    /\ policyStore = <<>>
    /\ policyCall = NoCall
    /\ evalTask = NoTask
    /\ templateStore = TemplateTable
    /\ approvalStore = ApprovalTable
    /\ workflowCall = NoCall
    /\ maskCall = NoCall

NextTemplateExec == ExecuteTemplateQuery

SpecTemplateExec == InitTemplateExec /\ [][NextTemplateExec]_vars

\* policy writes interleaved with one evaluation at its awaits
NextConcurrent ==
    \/ CreatePolicy
    \/ UpdatePolicy
    \/ DeletePolicy
    \/ StartEvaluation
    \/ EvaluateStep
    \/ FinishEvaluation

SpecConcurrent == InitPolicy /\ [][NextConcurrent]_vars

(***************************************************************************)
(* Properties                                                              *)
(***************************************************************************)
\* a text with one of the keywords as a token
HasKeywordToken(sql, keywords) ==
    \E i \in 1..Len(sql) :
        \E keyword \in keywords : UpperTok(sql[i]) = Chars(keyword)

\* a text with the tokens UNION SELECT next to each other
HasUnionSelect(sql) ==
    \E i \in 1..(Len(sql) - 1) : sql[i] = "UNION" /\ sql[i + 1] = "SELECT"

ExecDone == execCall.fn = "execute_query" /\ execCall.done

\* C1: execute_query reaches the executor only if the RBAC execution gate
\* allows the statement: a statement with a DDL keyword is executed only for
\* a role holding execute_ddl_statements, one with a DML keyword only for a
\* role holding execute_dml_statements.
C1_ExecutorBehindRbacGate ==
    ExecDone /\ execCall.result.executed =>
        /\ HasKeywordToken(execCall.sql, rbac_ddl_keywords) =>
               has_permission(execCall.user_role, "execute_ddl_statements")
        /\ HasKeywordToken(execCall.sql, rbac_dml_keywords) =>
               has_permission(execCall.user_role, "execute_dml_statements")

\* C2: the executor is reached only after validate_sql returned is_valid
\* with no injection attempt; an empty text and a text with UNION SELECT
\* (reported as UNION_BASED) are rejected with an error and not executed.
C2_ExecutorOnlyAfterValidation ==
    ExecDone =>
        /\ execCall.result.executed =>
               /\ execCall.result.validation.is_valid
               /\ execCall.result.validation.injection_attempts = <<>>
               /\ execCall.sql # <<>>
               /\ ~HasUnionSelect(execCall.sql)
        /\ (execCall.sql = <<>> \/ HasUnionSelect(execCall.sql)) =>
               /\ ~execCall.result.executed
               /\ execCall.result.outcome \in {"ValueError", "PermissionError"}
        /\ (HasUnionSelect(execCall.sql)
              /\ execCall.result.error = "SQL validation failed") =>
               \E i \in 1..Len(execCall.result.validation.injection_attempts) :
                   execCall.result.validation.injection_attempts[i]
                       = "UNION_BASED"

\* an injection inside the text, on a database the role may use, was rejected
C2_Witness ==
    /\ ExecDone
    /\ execCall.sql = <<"SELECT", "UNION", "SELECT">>
    /\ execCall.database_id = "test-db"
    /\ execCall.user_role = "ADMIN"
    /\ execCall.result.outcome = "ValueError"
    /\ execCall.result.error = "SQL validation failed"
    /\ ~execCall.result.executed

RbacDone(fn) == rbacCall.fn = fn /\ rbacCall.done

UserChecks == UnaryChecks \cup
              {"can_execute_query", "can_update_template",
               "can_delete_template", "can_execute_template",
               "can_access_database", "can_access_schema",
               "can_view_audit_logs", "check_resource_access"}

\* C3: a subject with is_active = false gets false from every can_* check
\* and from check_resource_access, whatever its role and the arguments.
C3_InactiveDeniedEverything ==
    (rbacCall.fn \in UserChecks /\ rbacCall.done
        /\ ~rbacCall.user.is_active) => rbacCall.result = FALSE

\* an inactive ADMIN was refused its own user resource
C3_Witness ==
    /\ RbacDone("check_resource_access")
    /\ rbacCall.user.role = "ADMIN"
    /\ ~rbacCall.user.is_active
    /\ rbacCall.arg.resource_type = "user"
    /\ rbacCall.arg.resource_id = rbacCall.user.id
    /\ rbacCall.result = FALSE

\* C4: every unary RBAC check decides on the role of the authoritative user
\* record, not on the role field of the User object the caller passes.
C4_AuthoritativeRoleDecides ==
    (rbacCall.fn \in UnaryChecks /\ rbacCall.done) =>
        rbacCall.result =
            ApplyUnary(rbacCall.fn,
                       [rbacCall.user EXCEPT
                           !.role = users[rbacCall.user.id].role])

\* the order of the roles, lowest first
RoleOrder == <<"VIEWER", "OPERATOR", "APPROVER", "ADMIN">>

RoleRank(role) == CHOOSE i \in 1..Len(RoleOrder) : RoleOrder[i] = role

\* C5: the effective permissions of a role include every effective
\* permission of every lower role.
C5_RoleSuperset ==
    RbacDone("get_effective_permissions") =>
        \A lower \in UserRole :
            RoleRank(lower) < RoleRank(rbacCall.user.role) =>
                \A p \in Permission :
                    p \in get_effective_permissions(lower) =>
                        p \in rbacCall.result

\* APPROVER got a permission only OPERATOR declares
C5_Witness ==
    /\ RbacDone("get_effective_permissions")
    /\ rbacCall.user.role = "APPROVER"
    /\ "submit_for_approval" \in rbacCall.result
    /\ "submit_for_approval" \notin extended_permissions("APPROVER")

\* C6: can_execute_query is false exactly when the user is inactive, or the
\* statement is classified has_ddl and the role lacks execute_ddl_statements,
\* or it is classified has_dml and the role lacks execute_dml_statements.
C6_CanExecuteByClassification ==
    RbacDone("can_execute_query") =>
        LET classification == validate_sql(rbacCall.arg, rbacCall.user.role)
        IN  rbacCall.result =
                ~(\/ ~rbacCall.user.is_active
                  \/ /\ classification.has_ddl
                     /\ ~has_permission(rbacCall.user.role,
                                        "execute_ddl_statements")
                  \/ /\ classification.has_dml
                     /\ ~has_permission(rbacCall.user.role,
                                        "execute_dml_statements"))

\* evaluate_policy returned a result (from the simulated read, or from the
\* rows of a populated table)
EvalDone ==
    /\ policyCall.fn \in {"evaluate_policy", "evaluate_applicable"}
    /\ policyCall.done
    /\ policyCall.result.outcome = "ok"

\* the scope of a policy matches the subject and the database of a request
ScopeMatches(policy, evaluation_request) ==
    \/ policy.applies_to = "ALL_USERS"
    \/ policy.applies_to = "ROLE"
          /\ policy.target = evaluation_request.user_role
    \/ policy.applies_to = "USER"
          /\ policy.target = evaluation_request.user_id
    \/ policy.applies_to = "DATABASE"
          /\ policy.target = evaluation_request.database_id

\* the active, enforced policies of the table whose scope matches the request
Applicable(store, evaluation_request) ==
    SelectSeq(store, LAMBDA policy :
        /\ policy.is_active
        /\ policy.is_enforced
        /\ ScopeMatches(policy, evaluation_request))

\* the names of a list of policies, as a list and as a set
Names(policies) == [i \in 1..Len(policies) |-> policies[i].name]

NameSet(names) == {names[i] : i \in 1..Len(names)}

\* C7: the policies evaluate_policy applies are exactly the policies of the
\* policy set that are active and enforced and whose scope matches the
\* subject's role, the subject's id or the database id of the request.
C7_AppliedExactlyApplicable ==
    (policyCall.fn = "evaluate_policy" /\ EvalDone) =>
        NameSet(policyCall.result.applied_policies)
            = NameSet(Names(Applicable(policyStore,
                                       policyCall.evaluation_request)))

WithPriority(policies, priority) ==
    SelectSeq(policies, LAMBDA policy : policy.priority = priority)

\* CRITICAL first, then HIGH, MEDIUM and LOW, creation order within each
ByPriority(policies) ==
    WithPriority(policies, "CRITICAL") \o WithPriority(policies, "HIGH")
        \o WithPriority(policies, "MEDIUM") \o WithPriority(policies, "LOW")

\* C8: applied_policies lists the applicable policies of the policy set in
\* priority order CRITICAL, HIGH, MEDIUM, LOW, policies of equal priority in
\* creation order.
C8_AppliedInPriorityOrder ==
    (policyCall.fn = "evaluate_policy" /\ EvalDone) =>
        policyCall.result.applied_policies
            = Names(ByPriority(Applicable(policyStore,
                                          policyCall.evaluation_request)))

\* C9: a result of evaluate_policy has allowed = true if and only if its
\* violations list is empty.
C9_AllowedIffNoViolations ==
    EvalDone =>
        (policyCall.result.allowed <=> policyCall.result.violations = <<>>)

\* a DROP was refused by a BLOCK_DDL policy next to a warning-only policy
C9_Witness ==
    /\ EvalDone
    /\ policyCall.evaluation_request.sql_query = <<"DROP">>
    /\ Names(policyCall.applicable_policies) = <<"max_rows", "block_ddl">>
    /\ ~policyCall.result.allowed
    /\ policyCall.result.violations
           = <<<<"DDL statement", "DROP", "is blocked by policy">>>>
    /\ Len(policyCall.result.warnings) = 1

\* the policies of a list that evaluate_policy evaluates
Evaluated(applicable_policies) ==
    SelectSeq(applicable_policies, LAMBDA policy :
        policy.is_active /\ policy.is_enforced)

\* the sum of the risk_impact of the evaluated policies, in tenths
RECURSIVE SumRiskImpact(_, _)
SumRiskImpact(policies, evaluation_request) ==
    IF policies = <<>> THEN 0
    ELSE _evaluate_specific_policy(Head(policies),
                                   evaluation_request).risk_impact
         + SumRiskImpact(Tail(policies), evaluation_request)

\* C10: risk_score is min(1.0, the sum of the risk_impact of every evaluated
\* policy), warning-only policies included, and lies in [0, 1].
C10_RiskScoreIsClampedSum ==
    EvalDone =>
        /\ policyCall.result.risk_score
               = MinRisk(SumRiskImpact(
                             Evaluated(policyCall.applicable_policies),
                             policyCall.evaluation_request))
        /\ policyCall.result.risk_score \in 0..10

EvaluatedOfType(policy_type) ==
    SelectSeq(Evaluated(policyCall.applicable_policies),
              LAMBDA policy : policy.policy_type = policy_type)

\* a message is in a list of messages
InList(message, messages) ==
    \E i \in 1..Len(messages) : messages[i] = message

\* some blocked statement of the policy is a keyword token of the statement
BlockedKeywordToken(policy, sql) ==
    \E i \in 1..Len(Get(policy.value, "blocked_statements", <<>>)) :
        HasKeywordToken(sql, {policy.value.blocked_statements[i]})

\* the result holds a violation "<kind> statement '<keyword>' is blocked by
\* policy" for a blocked statement of the policy
BlockedViolation(policy, kind) ==
    \E i \in 1..Len(Get(policy.value, "blocked_statements", <<>>)) :
        InList(<<kind, policy.value.blocked_statements[i],
                 "is blocked by policy">>,
               policyCall.result.violations)

\* C12: an evaluated BLOCK_DDL (BLOCK_DML) policy leaves a violation "DDL
\* (DML) statement '<keyword>' is blocked by policy" if and only if one of
\* its blocked_statements is a keyword token of the statement, and a result
\* with such a violation has allowed = false.
C12_BlockOnKeywordTokens ==
    EvalDone =>
        LET sql == policyCall.evaluation_request.sql_query
            ddl == EvaluatedOfType("BLOCK_DDL")
            dml == EvaluatedOfType("BLOCK_DML")
        IN  /\ \A i \in 1..Len(ddl) :
                   /\ BlockedViolation(ddl[i], "DDL statement")
                          <=> BlockedKeywordToken(ddl[i], sql)
                   /\ BlockedViolation(ddl[i], "DDL statement")
                          => ~policyCall.result.allowed
            /\ \A i \in 1..Len(dml) :
                   /\ BlockedViolation(dml[i], "DML statement")
                          <=> BlockedKeywordToken(dml[i], sql)
                   /\ BlockedViolation(dml[i], "DML statement")
                          => ~policyCall.result.allowed

\* the statements a REQUIRE_WHERE_CLAUSE policy names
RequiredFor(policy) ==
    Get(policy.value, "required_for", <<"UPDATE", "DELETE">>)

\* the type of the statement, its leading keyword, is listed in required_for
TypeRequiresWhere(policy, sql) ==
    /\ sql # <<>>
    /\ \E i \in 1..Len(RequiredFor(policy)) :
           UpperTok(sql[1]) = Upper(Chars(RequiredFor(policy)[i]))

\* the result holds a violation "<statement> statement requires WHERE clause"
WhereViolation(policy) ==
    \E i \in 1..Len(RequiredFor(policy)) :
        InList(<<RequiredFor(policy)[i], "statement requires WHERE clause">>,
               policyCall.result.violations)

\* C13: an evaluated REQUIRE_WHERE_CLAUSE policy leaves a violation, and the
\* result has allowed = false, if and only if the type of the statement is
\* listed in required_for and the classification has no WHERE clause.
C13_WhereRequiredByStatementType ==
    EvalDone =>
        LET request == policyCall.evaluation_request
            policies == EvaluatedOfType("REQUIRE_WHERE_CLAUSE")
        IN  \A i \in 1..Len(policies) :
                /\ WhereViolation(policies[i])
                       <=> /\ TypeRequiresWhere(policies[i],
                                                request.sql_query)
                           /\ ~validate_sql(request.sql_query,
                                            request.user_role).has_where_clause
                /\ WhereViolation(policies[i]) => ~policyCall.result.allowed

\* the statement has a LIMIT clause: LIMIT is one of its tokens
HasLimitClause(sql) == HasKeywordToken(sql, {"LIMIT"})

\* the LIMIT tokens of a statement
LimitClauses(sql) == {i \in 1..Len(sql) : UpperTok(sql[i]) = Chars("LIMIT")}

\* C14: the auto-limit rewrite applied to its own result returns it unchanged;
\* a statement with a LIMIT clause is left as it is, and a statement without
\* one gets exactly one LIMIT <value> appended.
C14_AutoLimitIdempotent ==
    (execCall.fn = "_apply_security_policies" /\ execCall.results # <<>>) =>
        LET rewritten == execCall.results[1]
        IN  /\ \A i \in 1..Len(execCall.results) :
                   execCall.results[i] = rewritten
            /\ HasLimitClause(execCall.sql) => rewritten = execCall.sql
            /\ ~HasLimitClause(execCall.sql) =>
                   /\ Cardinality(LimitClauses(rewritten)) = 1
                   /\ Len(rewritten) = Len(RStripSemicolon(execCall.sql)) + 2
                   /\ SubSeq(rewritten, 1, Len(rewritten) - 2)
                          = RStripSemicolon(execCall.sql)
                   /\ rewritten[Len(rewritten) - 1] = "LIMIT"

\* the policy types _evaluate_specific_policy has a branch for
TypesWithLogic ==
    {"STATEMENT_TIMEOUT", "MAX_ROWS", "BLOCK_DDL", "BLOCK_DML",
     "REQUIRE_WHERE_CLAUSE"}

\* the policy types that only warn: the two advisory ones and every type
\* without type-specific logic
WarningOnlyTypes ==
    {"STATEMENT_TIMEOUT", "MAX_ROWS"} \cup (PolicyType \ TypesWithLogic)

\* C15: every evaluated policy whose policy_type has no type-specific logic
\* leaves a warning in the result, as every STATEMENT_TIMEOUT and MAX_ROWS
\* policy does, and no violation: the result has one warning for each
\* evaluated warning-only policy.
C15_UnrecognizedTypeWarns ==
    EvalDone =>
        /\ Len(policyCall.result.warnings)
               = Len(SelectSeq(Evaluated(policyCall.applicable_policies),
                               LAMBDA policy :
                                   policy.policy_type \in WarningOnlyTypes))
        /\ \A i \in 1..Len(policyCall.applicable_policies) :
               policyCall.applicable_policies[i].policy_type
                       \notin TypesWithLogic =>
                   _evaluate_specific_policy(
                       policyCall.applicable_policies[i],
                       policyCall.evaluation_request).violation = NoMessage

\* C16: policy writes that run while an evaluation is in flight do not reach
\* it: the evaluation keeps the list of policies it read when it started,
\* its result is the evaluation of exactly that list, and no step of the
\* evaluation writes the policy table.
C16_SnapshotIsolation ==
    [][/\ evalTask' # evalTask => policyStore' = policyStore
       /\ (evalTask.phase = "loop" /\ evalTask'.phase = "loop") =>
              evalTask'.applicable_policies = evalTask.applicable_policies
       /\ (evalTask.phase = "loop" /\ evalTask'.phase = "done") =>
              evalTask'.result
                  = EvaluateApplicable(evalTask.applicable_policies,
                                       evalTask.evaluation_request,
                                       "admin-123", evalTask.user_role)
      ]_vars

\* an evaluation finished with the timeout policy it had read although the
\* last write, made while it was in flight, deactivated or deleted that row
C16_Witness ==
    /\ evalTask.phase = "done"
    /\ evalTask.result.outcome = "ok"
    /\ evalTask.result.applied_policies = <<"viewer_timeout">>
    /\ policyCall.fn \in {"update_policy", "delete_policy"}
    /\ policyCall.during_evaluation
    /\ policyCall.result.outcome = "ok"
    /\ \A i \in 1..Len(policyStore) :
           policyStore[i].id = "policy-123" => ~policyStore[i].is_active

\* C17: every policy in the table, and every policy that create_policy or
\* update_policy returns as saved, is a valid definition: its value satisfies
\* the schema of its policy type and its target is non-empty when the scope
\* is ROLE, USER or DATABASE.
ValidDefinition(policy) ==
    /\ validate_value(policy.policy_type, policy.value)
    /\ validate_target(policy.applies_to, policy.target)

C17_SavedPolicyIsValid ==
    /\ \A i \in 1..Len(policyStore) : ValidDefinition(policyStore[i])
    /\ (policyCall.fn \in {"create_policy", "update_policy"}
          /\ policyCall.result.outcome = "ok")
            => ValidDefinition(policyCall.result.policy)

\* C18: the policy table changes only in a create_policy, update_policy or
\* delete_policy call made with the role ADMIN (the one role holding
\* configure_security_policies); the same call made with any other role
\* raises PermissionError, whatever its arguments (valid or not, known id or
\* not), and leaves the table as it was.
PolicyWrites == {"create_policy", "update_policy", "delete_policy"}

C18_OnlyAdminChangesPolicies ==
    [][/\ policyStore' # policyStore =>
              /\ policyCall'.fn \in PolicyWrites
              /\ policyCall'.user_role = "ADMIN"
       /\ (policyCall' # policyCall
              /\ policyCall'.fn \in PolicyWrites
              /\ policyCall'.user_role # "ADMIN") =>
              /\ policyCall'.result.outcome = "PermissionError"
              /\ policyStore' = policyStore
      ]_vars

\* a create_policy call by a VIEWER with an unknown policy type, answered
\* with PermissionError while the table holds a policy created earlier
C18_Witness ==
    /\ policyCall.fn = "create_policy"
    /\ policyCall.user_role = "VIEWER"
    /\ policyCall.policy_data.name = "bad_type"
    /\ policyCall.result.outcome = "PermissionError"
    /\ Len(policyStore) = 2

\* C19: on every path of execute_query, each audit record and each log line
\* that carries the statement carries it as the PII masker returns it, never
\* the text as it was submitted.
LinesWithStatement(log) ==
    SelectSeq(log, LAMBDA line : line.event = "Security event logged")

C19_LoggedStatementIsMasked ==
    (execCall.fn = "execute_query" /\ execCall.done) =>
        /\ \A i \in 1..Len(execCall.result.audit) :
               execCall.result.audit[i].sql_query
                   = mask_sql_query(execCall.sql)
        /\ \A i \in 1..Len(LinesWithStatement(execCall.result.log)) :
               LinesWithStatement(execCall.result.log)[i].sql_query
                   = mask_sql_query(execCall.sql)

\* C20: an execute_query call whose statement the validator finds an
\* injection pattern in logs exactly one security event with the action
\* SQL_INJECTION_ATTEMPT and the severity CRITICAL, carrying the user id and
\* the statement, and fails with a ValueError whose message names "SQL
\* injection attempt detected".
ValidationRan ==
    /\ execCall.fn = "execute_query"
    /\ execCall.done
    /\ execCall.result.error \notin {"Database connection not found",
                                       "Access denied to this database"}

\* the message of the failure is, or lists as the first error of the
\* validator, "SQL injection attempt detected"
MessageNamesInjection(result) ==
    \/ result.error = "SQL injection attempt detected"
    \/ /\ result.error = "SQL validation failed"
       /\ Len(result.validation.errors) > 0
       /\ result.validation.errors[1] = "SQL injection attempt detected"

InjectionEvents(audit) ==
    SelectSeq(audit, LAMBDA record : record.action = "SQL_INJECTION_ATTEMPT")

C20_InjectionAttemptLogged ==
    (ValidationRan
       /\ Len(execCall.result.validation.injection_attempts) > 0) =>
        /\ Len(InjectionEvents(execCall.result.audit)) = 1
        /\ InjectionEvents(execCall.result.audit)[1]
               = AuditRecord("SQL_INJECTION_ATTEMPT", "CRITICAL",
                             execCall.user_id, execCall.sql)
        /\ execCall.result.outcome = "ValueError"
        /\ MessageNamesInjection(execCall.result)

\* C21: for an active user, can_view_audit_logs is true for every target (the
\* user's own id included) when the role holds view_all_audit_logs (APPROVER,
\* ADMIN), and for the other roles is true exactly when the target is the
\* user's own id.
C21_AuditLogVisibility ==
    (RbacDone("can_view_audit_logs") /\ rbacCall.user.is_active) =>
        rbacCall.result =
            IF rbacCall.user.role \in {"APPROVER", "ADMIN"}
            THEN TRUE
            ELSE rbacCall.arg = rbacCall.user.id

\* C22: execute_template runs SQL for a template only when the status the
\* template has in the templates table is APPROVED; otherwise it raises
\* PermissionError and renders and executes nothing.
StatusIn(table, id) ==
    LET rows == SelectSeq(table, LAMBDA t : t.id = id)
    IN  IF rows = <<>> THEN None ELSE rows[1].status

CurrentStatus(template_id) == StatusIn(templateStore, template_id)

C22_ExecuteOnlyApproved ==
    workflowCall.fn = "execute_template" =>
        /\ workflowCall.result.executed =>
               CurrentStatus(workflowCall.arg.template_id) = "APPROVED"
        /\ CurrentStatus(workflowCall.arg.template_id)
               \in {"DRAFT", "PENDING_APPROVAL", "REJECTED"} =>
               /\ workflowCall.outcome = "PermissionError"
               /\ ~workflowCall.result.executed

\* C23: submit_for_approval succeeds exactly when the role holds
\* submit_for_approval (OPERATOR, ADMIN) and the template is DRAFT; when it
\* succeeds it adds an approval request in status PENDING assigned to the
\* named reviewer and moves the template to PENDING_APPROVAL.
Submitted ==
    /\ workflowCall' # workflowCall
    /\ workflowCall'.fn = "submit_for_approval"

NewRequests ==
    {i \in 1..Len(approvalStore') :
        \A j \in 1..Len(approvalStore) :
            approvalStore[j].id # approvalStore'[i].id}

C23_SubmitDraftForApproval ==
    [][Submitted =>
        /\ workflowCall'.outcome = "ok" <=>
               /\ workflowCall'.caller.user_role \in {"OPERATOR", "ADMIN"}
               /\ CurrentStatus(workflowCall'.arg.template_id) = "DRAFT"
        /\ workflowCall'.outcome = "ok" =>
               /\ \E i \in NewRequests :
                      /\ approvalStore'[i].status = "PENDING"
                      /\ approvalStore'[i].assigned_to
                             = workflowCall'.arg.assigned_to
                      /\ approvalStore'[i].template_id
                             = workflowCall'.arg.template_id
               /\ StatusIn(templateStore', workflowCall'.arg.template_id)
                      = "PENDING_APPROVAL"
      ]_vars

\* C24: when a DDL keyword occurs as a token anywhere in the submitted text,
\* also after a ';', validate_sql reports has_ddl or rejects the text; and the
\* same for a DML keyword and has_dml.
KeywordAnywhere(keywords, sql) ==
    \E i \in 1..Len(sql) :
        \E keyword \in keywords : UpperTok(sql[i]) = Chars(keyword)

C24_ClassifiedAsAWhole ==
    ValidationRan =>
        /\ KeywordAnywhere(ddl_keywords, execCall.sql) =>
               \/ execCall.result.validation.has_ddl
               \/ ~execCall.result.validation.is_valid
        /\ KeywordAnywhere(dml_keywords, execCall.sql) =>
               \/ execCall.result.validation.has_dml
               \/ ~execCall.result.validation.is_valid

\* C25: validate_parameters fails when a named placeholder of the text has no
\* key among the bound values; with every placeholder bound and harmless
\* values it passes, keys that do not occur in the text included, and
\* execute_query does not reject the request for its parameters.
PlaceholderNames(sql) ==
    {Tail(Chars(sql[i])) : i \in {j \in 1..Len(sql) : IsPlaceholder(sql[j])}}

AllBound(sql, parameters) ==
    \A n \in PlaceholderNames(sql) :
        \E k \in DOMAIN parameters : Chars(k) = n

Benign(parameters) ==
    \A k \in DOMAIN parameters :
        /\ _detect_sql_injection(parameters[k]) = <<>>
        /\ Len(Text(parameters[k])) <= MaxParamValueLen

C25_UnusedParameterIsAdvisory ==
    (execCall.fn = "execute_query" /\ execCall.done) =>
        /\ ~AllBound(execCall.sql, execCall.parameters) =>
               ~validate_parameters(execCall.sql,
                                    execCall.parameters).is_valid
        /\ (AllBound(execCall.sql, execCall.parameters)
              /\ Benign(execCall.parameters)) =>
               /\ validate_parameters(execCall.sql,
                                      execCall.parameters).is_valid
               /\ execCall.result.error # "Parameter validation failed"

\* the masking the description gives a string: by the hinted type of some
\* column, or by free-text detection
Maskings(text, column_mapping) ==
    {mask_pii_in_text(text)}
        \cup {_mask_by_type(text, column_mapping[k]) :
                 k \in DOMAIN column_mapping}

\* out has the shape of data, every string leaf masked, other leaves equal
RECURSIVE MaskedLike(_, _, _)
MaskedLike(data, out, column_mapping) ==
    IF IsStr(data)
    THEN IsStr(out) /\ out.str \in Maskings(data.str, column_mapping)
    ELSE IF IsDict(data)
    THEN /\ IsDict(out)
         /\ DOMAIN out.dict = DOMAIN data.dict
         /\ \A k \in DOMAIN data.dict :
               MaskedLike(data.dict[k], out.dict[k], column_mapping)
    ELSE IF IsList(data)
    THEN /\ IsList(out)
         /\ Len(out.list) = Len(data.list)
         /\ \A i \in 1..Len(data.list) :
               MaskedLike(data.list[i], out.list[i], column_mapping)
    ELSE out = data

\* C26: mask_data returns a structure of the same shape as its input in
\* which every string leaf is masked, strings that are direct elements of a
\* list included, and every other leaf is unchanged
C26_EveryStringLeafMasked ==
    (maskCall.fn = "mask_data" /\ maskCall.done) =>
        MaskedLike(maskCall.data, maskCall.result, maskCall.column_mapping)

\* C27: whenever update_template, submit_for_approval or process_approval
\* changes the status of a stored template, the change is one that
\* TEMPLATE_STATUS_TRANSITIONS allows
C27_TemplateStatusTransitions ==
    [][workflowCall'.fn \in {"update_template", "submit_for_approval",
                             "process_approval"} =>
          \A template_id \in TemplateIds :
              (/\ CurrentStatus(template_id) # None
               /\ StatusIn(templateStore', template_id)
                      # CurrentStatus(template_id)) =>
                  can_transition_status(
                      CurrentStatus(template_id),
                      StatusIn(templateStore', template_id))]_vars

ResolvingCall ==
    workflowCall'.fn \in {"process_approval", "bulk_process_approvals"}

RowsOf(table, id) == SelectSeq(table, LAMBDA row : row.id = id)

\* the stored request id changes status in this step
Resolved(id) ==
    /\ StatusIn(approvalStore, id) # None
    /\ StatusIn(approvalStore', id) # StatusIn(approvalStore, id)

\* C28: a call of process_approval or bulk_process_approvals changes the
\* status of a stored approval request only from PENDING to APPROVED or
\* REJECTED and only for its assigned reviewer holding approve_templates; a
\* request that is APPROVED or REJECTED is never changed again, nor is the
\* status of its template, and a refused process_approval changes nothing
C28_ResolvedAtMostOnce ==
    [][ResolvingCall =>
          /\ \A id \in ApprovalIds :
                /\ Resolved(id) =>
                      /\ can_transition_approval_status(
                             StatusIn(approvalStore, id),
                             StatusIn(approvalStore', id))
                      /\ RowsOf(approvalStore, id)[1].assigned_to
                             = workflowCall'.caller.user_id
                      /\ can_approve_template(CallerUser(workflowCall'.caller))
                /\ StatusIn(approvalStore, id) \in {"APPROVED", "REJECTED"} =>
                      /\ RowsOf(approvalStore', id) = RowsOf(approvalStore, id)
                      /\ StatusIn(templateStore',
                                  RowsOf(approvalStore, id)[1].template_id)
                           = StatusIn(templateStore,
                                  RowsOf(approvalStore, id)[1].template_id)
          /\ (workflowCall'.fn = "process_approval"
                /\ workflowCall'.outcome # "ok") =>
                 UNCHANGED <<templateStore, approvalStore>>]_vars

\* C29: has_permission(role, p) is true exactly when p is among the
\* effective permissions of the role, so whatever a lower role may do a
\* higher role may do as well
C29_PermissionTestIsEffective ==
    RbacDone("has_permission") =>
        rbacCall.result =
            (rbacCall.arg \in get_effective_permissions(rbacCall.user.role))

\* the request names an approved template, a database the role may use and
\* a benign value for exactly the placeholders of the template
WellFormedTemplateRequest ==
    LET template == SQLExecutionService_get_template(execCall.template_id)
        db_connection == _get_database_connection(execCall.database_id)
    IN  /\ template.id # None
        /\ template.status = "APPROVED"
        /\ db_connection # NoConnection
        /\ can_access_database(
               [id |-> execCall.user_id, role |-> execCall.user_role,
                is_active |-> TRUE],
               db_connection.connection_type)
        /\ AllBound(template.sql_content, execCall.parameters)
        /\ \A k \in DOMAIN execCall.parameters :
              Chars(k) \in PlaceholderNames(template.sql_content)
        /\ Benign(execCall.parameters)

\* C30: execute_template on an approved template, for a user allowed on the
\* database and with a benign value for exactly each placeholder, passes
\* parameter validation and reaches the executor
C30_TemplateReachesExecutor ==
    (execCall.fn = "execute_template" /\ execCall.done
        /\ WellFormedTemplateRequest) =>
        /\ execCall.result.error # "Parameter validation failed"
        /\ execCall.result.executed

====
